---- MODULE Spec2Model ----
(***************************************************************************)
(* Model of the position / portfolio reconciliation engine of              *)
(* quantum_trader_backend: DataManager (core/data_manager.py), the         *)
(* Portfolio and Position classes (models/portfolio.py), the feed          *)
(* callbacks of IBKRWrapper (core/ibkr_client.py) and the periodic pass    *)
(* of PortfolioService (services/portfolio_service.py).                    *)
(* Around it: the connection handling and request ids of IBKRClient, the   *)
(* subscription records of MarketDataService                               *)
(* (services/market_data_service.py), DataManager.add_alert and the loss   *)
(* checks of AlertsService (services/alerts_service.py).                   *)
(* A last section models the position store of quantum_trader_simple:     *)
(* DataStore.update_positions (core/data_store.py) as called by            *)
(* PositionService and MarketService from their two threads.               *)
(*                                                                         *)
(* Numbers.  Python floats are modelled as integers:                       *)
(*   - money (prices, costs, values, P&L) is held in half dollars,         *)
(*     Dollars(155) = 310;                                                 *)
(*   - a quantity reported by the feed is held in half units,              *)
(*     Shares(100) = 200, so that the feed's fractional quantities and     *)
(*     int(position_quantity) can be told apart; a stored                  *)
(*     Position.quantity is a whole number of units;                       *)
(*   - option sensitivities are held in hundredths (delta 0.73 = 73,       *)
(*     the feed's sentinel -2 = -200);                                     *)
(*   - a percentage is the floor of the float percentage.                  *)
(* Optional values (None) are sequences of length 0 or 1.  Strings that    *)
(* the code inspects character by character (expiry dates, account ids)    *)
(* are sequences of one-character strings.                                 *)
(***************************************************************************)
EXTENDS Integers, Sequences, FiniteSets, TLC

VARIABLES
    market_data,    \* DataManager.market_data: symbol -> optional MarketData
    greeks_data,    \* DataManager.greeks_data: symbol -> optional Greeks
    portfolios,     \* DataManager.portfolios: account id -> optional Portfolio
    order,          \* insertion order of the keys of DataManager.portfolios
    gen,            \* account id -> how many Portfolio objects were created for it
    account_data,   \* DataManager.account_data: account id -> key -> optional value
    svc,            \* PortfolioService thread: position in _update_portfolio_calculations
    tracked_accounts, \* PortfolioService.tracked_accounts
    snap,           \* the portfolios dict of the last DashboardData handed to a reader
    last,           \* the operation that made the last step, with its inputs
    lock,           \* DataManager._lock, an RLock: owning thread and depth
    threads,        \* thread -> the DataManager calls it is inside, innermost first
    store_positions,   \* quantum_trader_simple DataStore.positions: id -> optional position
    position_cache,    \* quantum_trader_simple PositionService.position_cache
    market_data_cache, \* quantum_trader_simple MarketService.market_data_cache
    market_service,    \* MarketService thread: position in _update_position_prices
    position_service,  \* feed thread: position in PositionService._on_position_update
    store_lock,        \* quantum_trader_simple DataStore._lock, and the call that holds it
    store_snapshot,    \* the positions of the reader's last DataStore.get_snapshot()
    client,            \* IBKRClient and the connection state of its IBKRWrapper
    callers,           \* service thread -> its position in a call of IBKRClient
    mds,               \* MarketDataService: its subscription records and its callers
    alerts,            \* DataManager.alerts
    alerts_added,      \* how many alerts add_alert has appended so far
    alerts_service     \* AlertsService: triggered_alerts and whether its thread runs

vars == <<market_data, greeks_data, portfolios, order, gen, account_data, svc,
          tracked_accounts, snap, last, lock, threads, store_positions,
          position_cache, market_data_cache, market_service, position_service,
          store_lock, store_snapshot, client, callers, mds, alerts, alerts_added,
          alerts_service>>

\* the state of DataManager's lock and of quantum_trader_simple, which the
\* operations of the engine modelled as one step each leave alone
lock_vars == <<lock, threads>>
simple_vars == <<store_positions, position_cache, market_data_cache, market_service,
                 position_service, store_lock, store_snapshot>>
\* the state outside DataManager and the portfolio service
alert_vars == <<alerts, alerts_added, alerts_service>>
outer_vars == <<client, callers, mds, alert_vars>>
Elsewhere == UNCHANGED <<lock_vars, simple_vars, outer_vars>>

----------------------------------------------------------------------------
(* Values *)

None == <<>>
Some(x) == <<x>>
IsSome(o) == Len(o) = 1
Val(o) == o[1]

Dollars(n) == 2 * n
Shares(n) == 2 * n

\* the bound on the positions a portfolio holds in the explored states
MaxPositions == 2
\* the bound on the Portfolio objects created for one account id
MaxGenerations == 2

Symbols == {"AAPL", "ES"}
\* the account ids of the feed, and the one account most runs follow
AccountIds == {"ACC1", "IRA7"}
Accounts == {"ACC1"}

Digits == {"0", "1", "2", "3", "4", "5", "6", "7", "8", "9"}

\* "20251219": the feed's YYYYMMDD;  "12/19/2025": the display format
ExpiryFeed == <<"2", "0", "2", "5", "1", "2", "1", "9">>
ExpiryDisplay == <<"1", "2", "/", "1", "9", "/", "2", "0", "2", "5">>
ExpiryMonth == <<"2", "0", "2", "5", "1", "2">>

\* ibapi Contract objects as the feed delivers them; an attribute the feed
\* leaves out keeps the Contract default ("" or 0.0), so hasattr() is true.
StkAapl == [symbol |-> "AAPL", secType |-> "STK", right |-> "", strike |-> 0, expiry |-> <<>>]
OptCallFeed == [symbol |-> "AAPL", secType |-> "OPT", right |-> "C", strike |-> 150, expiry |-> ExpiryFeed]
OptCallDisplay == [symbol |-> "AAPL", secType |-> "OPT", right |-> "C", strike |-> 150, expiry |-> ExpiryDisplay]
OptPutFeed == [symbol |-> "AAPL", secType |-> "OPT", right |-> "p", strike |-> 150, expiry |-> ExpiryFeed]
FutEs == [symbol |-> "ES", secType |-> "FUT", right |-> "", strike |-> 0, expiry |-> ExpiryMonth]

Contracts == {StkAapl, OptCallFeed, OptCallDisplay, OptPutFeed, FutEs}

----------------------------------------------------------------------------
(* models/portfolio.py *)

\* the options multiplier of Position.__post_init__ / update_price and of
\* DataManager._create_position_from_contract
OptionsMultiplier == 100

Multiplier(position_type) == IF position_type = "Stock" THEN 1 ELSE OptionsMultiplier

\* Position.__post_init__: market_value and unrealized_pnl are computed only
\* when the constructor was given 0
PositionPostInit(p) ==
    LET mv == IF p.market_value = 0
              THEN p.quantity * p.current_price * Multiplier(p.position_type)
              ELSE p.market_value
        up == IF p.unrealized_pnl = 0
              THEN (p.current_price - p.avg_cost) * p.quantity * Multiplier(p.position_type)
              ELSE p.unrealized_pnl
    IN  [p EXCEPT !.market_value = mv, !.unrealized_pnl = up]

RECURSIVE SumOver(_, _)
SumOver(s, field) ==
    IF s = <<>> THEN 0
    ELSE (CASE field = "market_value" -> s[1].market_value
            [] field = "day_pnl" -> s[1].day_pnl
            [] field = "total_pnl" -> s[1].unrealized_pnl + s[1].realized_pnl)
         + SumOver(Tail(s), field)

\* the float percentage n / d * 100, floored
Percent(n, d) == (n * 100) \div d

\* Portfolio.calculate_totals, lines 150-155
TotalsPercents(pf) ==
    IF pf.total_value > 0
    THEN LET invested_amount == pf.total_value - pf.total_pnl
         IN  [pf EXCEPT !.day_pnl_percent = Percent(pf.day_pnl, pf.total_value),
                        !.total_pnl_percent =
                            IF invested_amount > 0
                            THEN Percent(pf.total_pnl, invested_amount)
                            ELSE @]
    ELSE pf

\* Portfolio.calculate_totals run without interruption
CalculateTotals(pf) ==
    LET position_value == SumOver(pf.positions, "market_value")
    IN  TotalsPercents([pf EXCEPT !.total_value = position_value + pf.cash_balance,
                                  !.day_pnl = SumOver(pf.positions, "day_pnl"),
                                  !.total_pnl = SumOver(pf.positions, "total_pnl")])

\* the comparison of add_position without its test of option_type
SamePositionNoRight(p, q) ==
    /\ p.symbol = q.symbol
    /\ p.strike_price = q.strike_price
    /\ p.expiry = q.expiry

\* the comparison of Portfolio.add_position
SamePosition(p, q) ==
    /\ p.symbol = q.symbol
    /\ p.strike_price = q.strike_price
    /\ p.expiry = q.expiry
    /\ p.option_type = q.option_type

MatchingIndexes(positions, position) ==
    {i \in 1..Len(positions) : SamePosition(positions[i], position)}

Min(S) == CHOOSE x \in S : \A y \in S : x <= y

\* add_position without its search for a matching position
AddPositionAppend(pf, position) ==
    CalculateTotals([pf EXCEPT !.positions = Append(pf.positions, position)])

\* add_position carrying the Greeks and day P&L of the position it replaces
\* over to the new one
AddPositionMerge(pf, position) ==
    LET m == MatchingIndexes(pf.positions, position)
        positions == IF m # {}
                     THEN [pf.positions EXCEPT ![Min(m)] =
                              [position EXCEPT !.greeks = pf.positions[Min(m)].greeks,
                                               !.day_pnl = pf.positions[Min(m)].day_pnl]]
                     ELSE Append(pf.positions, position)
    IN  CalculateTotals([pf EXCEPT !.positions = positions])

\* Portfolio.add_position: the first matching position is replaced in place,
\* otherwise the position is appended; the totals are recomputed
AddPosition(pf, position) ==
    LET m == MatchingIndexes(pf.positions, position)
        positions == IF m # {}
                     THEN [pf.positions EXCEPT ![Min(m)] = position]
                     ELSE Append(pf.positions, position)
    IN  CalculateTotals([pf EXCEPT !.positions = positions])

\* Portfolio(account_id, account_type, positions=[]) with __post_init__
NewPortfolio(account_type) ==
    CalculateTotals([account_type |-> account_type, positions |-> <<>>,
                     cash_balance |-> 0, total_value |-> 0, day_pnl |-> 0,
                     total_pnl |-> 0, buying_power |-> 0, margin_used |-> 0,
                     total_pnl_percent |-> 0, day_pnl_percent |-> 0])

\* the members of the enum PositionType
PositionTypes == {"Stock", "Call", "Put"}

----------------------------------------------------------------------------
(* core/data_manager.py *)

\* str.isdigit() on a string held as a sequence of characters
IsDigitString(s) == Len(s) > 0 /\ \A i \in 1..Len(s) : s[i] \in Digits

\* DataManager._format_expiry_date: YYYYMMDD becomes MM/DD/YYYY, anything
\* else is returned as it came
FormatExpiryDate(expiry_raw) ==
    IF Len(expiry_raw) = 8 /\ IsDigitString(expiry_raw)
    THEN LET year == SubSeq(expiry_raw, 1, 4)
             month == SubSeq(expiry_raw, 5, 6)
             day == SubSeq(expiry_raw, 7, 8)
         IN  month \o <<"/">> \o day \o <<"/">> \o year
    ELSE expiry_raw

\* str.upper() on the one-character strings a contract's right takes
Upper(c) == CASE c = "c" -> "C" [] c = "p" -> "P" [] OTHER -> c

\* float(q) * price for a quantity q held in half units
TimesQuantity(position, price) == (position * price) \div 2

\* int(position_quantity): truncation toward zero
IntOfQuantity(position) ==
    IF position >= 0 THEN position \div 2 ELSE -((-position) \div 2)

\* the position type, option type, strike and expiry that
\* _create_position_from_contract (lines 215-240) reads off a contract;
\* raises is the AttributeError of PositionType.FUTURE, which the enum
\* PositionType does not define
ContractDetails(contract) ==
    LET is_opt == contract.secType = "OPT"
        right == IF is_opt /\ contract.right # "" THEN Upper(contract.right) ELSE ""
    IN  [raises |-> contract.secType = "FUT" /\ "Future" \notin PositionTypes,
         position_type |-> CASE right = "C" -> "Call"
                             [] right = "P" -> "Put"
                             [] OTHER -> "Stock",
         option_type |-> IF right \in {"C", "P"} THEN Some(right) ELSE None,
         strike_price |-> IF is_opt THEN Some(contract.strike) ELSE None,
         expiry |-> IF is_opt /\ contract.expiry # <<>>
                    THEN Some(FormatExpiryDate(contract.expiry))
                    ELSE None]

\* DataManager._create_position_from_contract: the Position, or None when
\* the body raised (lines 290-292)
CreatePositionFromContract(contract, position_data, quotes) ==
    LET d == ContractDetails(contract)
        position_quantity == position_data.position
        avg_cost == position_data.average_cost
        market_price ==
            IF position_data.market_price = 0
            THEN IF IsSome(quotes[contract.symbol])
                 THEN Val(quotes[contract.symbol]).price
                 ELSE avg_cost
            ELSE position_data.market_price
        market_value ==
            IF position_data.market_value = 0
            THEN TimesQuantity(position_quantity, market_price) * Multiplier(d.position_type)
            ELSE position_data.market_value
        unrealized_pnl ==
            IF position_data.unrealized_pnl = 0
            THEN TimesQuantity(position_quantity, market_price - avg_cost)
                     * Multiplier(d.position_type)
            ELSE position_data.unrealized_pnl
    IN  IF d.raises THEN None
        ELSE Some(PositionPostInit(
                 [symbol |-> contract.symbol,
                  position_type |-> d.position_type,
                  quantity |-> IntOfQuantity(position_quantity),
                  avg_cost |-> avg_cost,
                  current_price |-> market_price,
                  market_value |-> market_value,
                  unrealized_pnl |-> unrealized_pnl,
                  realized_pnl |-> position_data.realized_pnl,
                  day_pnl |-> 0,
                  strike_price |-> d.strike_price,
                  expiry |-> d.expiry,
                  option_type |-> d.option_type,
                  greeks |-> None,
                  strategy |-> "Complex Strategy"]))

\* Portfolio defines add_position, remove_position and get_position and no
\* method _positions_match
PortfolioMethods == {"calculate_totals", "add_position", "remove_position", "get_position", "to_dict"}

\* a removal that takes the first position out without looking for a match
RemoveFirstPosition(pfs, account_id, contract) ==
    IF pfs[account_id] = None \/ Len(Val(pfs[account_id]).positions) = 0 THEN pfs
    ELSE [pfs EXCEPT ![account_id] = Some(CalculateTotals(
             [Val(pfs[account_id]) EXCEPT !.positions = Tail(@)]))]

\* DataManager._remove_closed_position: every fault is caught at line 359
RemoveClosedPosition(pfs, account_id, contract) ==
    IF pfs[account_id] = None THEN pfs
    ELSE IF ContractDetails(contract).raises THEN pfs
    ELSE IF Len(Val(pfs[account_id]).positions) = 0 THEN pfs
    ELSE IF "_positions_match" \notin PortfolioMethods THEN pfs
    ELSE LET pf == Val(pfs[account_id])
             d == ContractDetails(contract)
             dummy == [symbol |-> contract.symbol, strike_price |-> d.strike_price,
                       expiry |-> IF contract.secType = "OPT"
                                  THEN Some(FormatExpiryDate(contract.expiry))
                                  ELSE None,
                       option_type |-> d.option_type]
             m == MatchingIndexes(pf.positions, dummy)
         IN  IF m = {} THEN pfs
             ELSE [pfs EXCEPT ![account_id] = Some(CalculateTotals(
                      [pf EXCEPT !.positions =
                          SubSeq(pf.positions, 1, Min(m) - 1)
                          \o SubSeq(pf.positions, Min(m) + 1, Len(pf.positions))]))]

\* 'retirement' in account_id.lower() or 'ira' in account_id.lower()
AccountChars(account_id) ==
    CASE account_id = "ACC1" -> <<"A", "C", "C", "1">>
      [] account_id = "IRA7" -> <<"I", "R", "A", "7">>

Lower(c) == CASE c = "A" -> "a" [] c = "C" -> "c" [] c = "I" -> "i" [] c = "R" -> "r"
              [] OTHER -> c

LowerString(s) == [i \in 1..Len(s) |-> Lower(s[i])]

Contains(s, sub) ==
    \E i \in 1..(Len(s) - Len(sub) + 1) : SubSeq(s, i, i + Len(sub) - 1) = sub

AccountTypeOf(account_id) ==
    IF \/ Contains(LowerString(AccountChars(account_id)),
                   <<"r", "e", "t", "i", "r", "e", "m", "e", "n", "t">>)
       \/ Contains(LowerString(AccountChars(account_id)), <<"i", "r", "a">>)
    THEN "retirement_tax_free"
    ELSE "individual_taxable"

\* DataManager.update_position, as a function of the portfolios dict
UpdatePositionResult(pfs, account_id, position_data, quotes) ==
    IF position_data.position = 0
    THEN RemoveClosedPosition(pfs, account_id, position_data.contract)
    ELSE LET position == CreatePositionFromContract(position_data.contract,
                                                   position_data, quotes)
             pf == IF pfs[account_id] = None
                   THEN NewPortfolio(AccountTypeOf(account_id))
                   ELSE Val(pfs[account_id])
         IN  IF position = None THEN pfs
             ELSE [pfs EXCEPT ![account_id] = Some(AddPosition(pf, Val(position)))]

\* a quote cache that keeps the first quote of a symbol
NewMarketDataKeep(existing, price_data) ==
    IF IsSome(existing) THEN Val(existing)
    ELSE [price |-> price_data.last_price, close |-> price_data.close,
          change |-> 0, change_percent |-> 0]

\* whether update_position meets an exception on its way: in
\* _create_position_from_contract (caught at line 290), or in
\* _remove_closed_position (caught at line 359)
UpdatePositionFaults(pfs, account_id, position_data) ==
    IF position_data.position # 0
    THEN ContractDetails(position_data.contract).raises
    ELSE /\ pfs[account_id] # None
         /\ \/ ContractDetails(position_data.contract).raises
            \/ /\ Len(Val(pfs[account_id]).positions) > 0
               /\ "_positions_match" \notin PortfolioMethods

\* whether update_account_value meets an exception on its way: float(value)
\* of lines 388 and 390, caught at line 399
UpdateAccountValueFaults(pfs, account_id, key, value) ==
    /\ pfs[account_id] # None
    /\ key \in {"CashBalance", "BuyingPower"}
    /\ ~value.ok

\* IBKRWrapper.updateAccountValue, line 247: the keys it passes on
ImportantKeys ==
    {"CashBalance", "BuyingPower", "NetLiquidation", "GrossPositionValue",
     "TotalCashValue", "AvailableFunds"}

\* the keys of the account feed in the explored runs: those and one more
FeedAccountKeys == ImportantKeys \cup {"DayTradesRemaining"}

\* DataManager.update_account_value, lines 374-381: the record of the value
AccountDataResult(ad, account_id, key, value) ==
    [ad EXCEPT ![account_id] =
        Some([k \in FeedAccountKeys |->
                 IF k = key THEN Some(value)
                 ELSE IF ad[account_id] = None THEN None
                 ELSE Val(ad[account_id])[k]])]

\* DataManager.update_account_value, lines 384-395, as a function of the
\* portfolios dict
UpdateAccountValueResult(pfs, account_id, key, value) ==
    IF pfs[account_id] = None THEN pfs
    ELSE IF UpdateAccountValueFaults(pfs, account_id, key, value)
    THEN pfs
    ELSE [pfs EXCEPT ![account_id] = Some(CalculateTotals(
             CASE key = "CashBalance" -> [Val(@) EXCEPT !.cash_balance = value.num]
               [] key = "BuyingPower" -> [Val(@) EXCEPT !.buying_power = value.num]
               [] OTHER -> Val(@)))]

\* MarketData(...) of DataManager.update_market_data (lines 66-107) with
\* MarketData.__post_init__
NewMarketData(existing, price_data) ==
    LET current_price == price_data.last_price
        close == price_data.close
        base == IF IsSome(existing) /\ Val(existing).close > 0 THEN Val(existing).close
                ELSE IF close > 0 THEN close
                ELSE 0
        change == IF base > 0 THEN current_price - base ELSE 0
        change_percent == IF base > 0 THEN Percent(change, base) ELSE 0
    IN  IF close > 0
        THEN [price |-> current_price, close |-> close,
              change |-> current_price - close,
              change_percent |-> Percent(current_price - close, close)]
        ELSE [price |-> current_price, close |-> close,
              change |-> change, change_percent |-> change_percent]

\* DataManager.update_greeks_data, lines 141-147: the Greeks go to every
\* Call or Put position on the symbol, in every portfolio
AttachGreeks(pfs, symbol, greeks) ==
    [a \in DOMAIN pfs |->
        IF pfs[a] = None THEN None
        ELSE Some([Val(pfs[a]) EXCEPT !.positions =
                 [i \in 1..Len(@) |->
                     IF @[i].symbol = symbol /\ @[i].position_type \in {"Call", "Put"}
                     THEN [@[i] EXCEPT !.greeks = Some(greeks)]
                     ELSE @[i]]])]

----------------------------------------------------------------------------
(* core/ibkr_client.py *)

\* the tick types IBKRWrapper.tickOptionComputation processes
ModelOptionTicks == {10, 82}

\* the delta validation without its range test abs(delta) <= 1
ValidDeltaUnranged(delta) == IF delta # -200 THEN delta ELSE 0

\* IBKRWrapper.tickOptionComputation, lines 159-163: the validated Greeks
ValidDelta(delta) == IF delta # -200 /\ (IF delta < 0 THEN -delta ELSE delta) <= 100 THEN delta ELSE 0
ValidGamma(gamma) == IF gamma # -200 /\ gamma >= 0 THEN gamma ELSE 0
ValidTheta(theta) == IF theta # -200 THEN theta ELSE 0
ValidVega(vega) == IF vega # -200 /\ vega >= 0 THEN vega ELSE 0
ValidIv(impliedVol) == IF impliedVol > 0 /\ impliedVol # -100 THEN impliedVol ELSE 0

\* the Greeks object DataManager.update_greeks_data builds from the
\* greeks_data dict of tickOptionComputation (which carries no rho)
GreeksOf(tick) ==
    [delta |-> ValidDelta(tick.delta), gamma |-> ValidGamma(tick.gamma),
     theta |-> ValidTheta(tick.theta), vega |-> ValidVega(tick.vega),
     rho |-> 0, implied_volatility |-> ValidIv(tick.impliedVol)]

----------------------------------------------------------------------------
(* Inputs of the explored runs *)

PriceTicks ==
    {[last_price |-> Dollars(160), close |-> 0],
     [last_price |-> 0, close |-> 0]}

OptionTicks ==
    {[tickType |-> 10, delta |-> 73, gamma |-> 5, theta |-> -3, vega |-> 12, impliedVol |-> 25],
     [tickType |-> 10, delta |-> -200, gamma |-> -200, theta |-> -200, vega |-> -200, impliedVol |-> -100],
     [tickType |-> 82, delta |-> 150, gamma |-> -1, theta |-> -3, vega |-> -1, impliedVol |-> 0],
     [tickType |-> 82, delta |-> -100, gamma |-> 0, theta |-> -3, vega |-> 0, impliedVol |-> 25],
     [tickType |-> 10, delta |-> -150, gamma |-> 5, theta |-> -200, vega |-> 12, impliedVol |-> -5],
     [tickType |-> 13, delta |-> 73, gamma |-> 5, theta |-> -3, vega |-> 12, impliedVol |-> 25]}

Delta(contract, position, market_price, market_value) ==
    [contract |-> contract, position |-> position, average_cost |-> Dollars(150),
     market_price |-> market_price, market_value |-> market_value,
     unrealized_pnl |-> 0, realized_pnl |-> 0]

\* closing deltas: quantity 0, as the feed reports a closed position
ClosingDeltas == {Delta(c, 0, 0, 0) : c \in Contracts}

\* opening deltas: 100 units; a market price of 0 is a price the feed did not
\* send, a market value of 0 a value it did not send
OpeningDeltas ==
    {Delta(StkAapl, Shares(100), Dollars(155), 0),
     Delta(StkAapl, Shares(100), Dollars(155), Dollars(15000)),
     Delta(StkAapl, Shares(100), 0, 0),
     Delta(OptCallFeed, Shares(100), Dollars(155), 0),
     Delta(OptCallFeed, Shares(100), Dollars(155), Dollars(15000)),
     Delta(OptPutFeed, Shares(100), Dollars(155), 0),
     Delta(FutEs, Shares(100), Dollars(155), 0)}

PositionDeltas == ClosingDeltas \cup OpeningDeltas

AccountKeys == {"CashBalance", "NetLiquidation"}
\* a value is the string the feed sent: one float() parses (ok) or not
AccountValues == {[ok |-> TRUE, num |-> Dollars(1000)]}

----------------------------------------------------------------------------
(* State *)

\* the RLock unowned; a thread outside every DataManager call
FreeLock == [owner |-> "", count |-> 0]
LockThreads == {"feed", "reader", "monitor"}
IdleThread == [stack |-> <<>>, exc |-> FALSE, outcome |-> "none", size |-> 0]

\* IBKRClient: settings.ibkr.max_reconnect_attempts (IBKR_MAX_RECONNECT) of the
\* explored runs, the number of requests of a run, and the request ids
MaxReconnectAttempts == 2
MaxRequests == 3
ReqIds == 1000 .. (1000 + MaxRequests)

\* the service threads that call IBKRClient: MarketDataService through
\* request_market_data, OptionsService through request_option_computation
ClientThreads == {"market_data", "options"}

\* IBKRWrapper.__init__ and IBKRClient.__init__; socket is EClient.isConnected(),
\* thread the connection thread alive, issued the ids handed out so far
NewClient ==
    [connected |-> FALSE, connection_ready |-> FALSE, connection_event |-> FALSE,
     socket |-> FALSE, thread |-> FALSE, reconnect_attempts |-> 0,
     next_req_id |-> 1000, req_id_to_symbol |-> [id \in ReqIds |-> {}],
     connection_lock |-> "", req_id_lock |-> "", issued |-> <<>>]

IdleCaller == [pc |-> "idle", symbol |-> "", req_id |-> 0, attempts |-> 0]

\* settings.alerts.max_alerts (MAX_ALERTS) of the explored runs, the number
\* of add_alert calls of a run, and the size past which
\* _cleanup_triggered_alerts empties triggered_alerts (1000 in the source,
\* scaled to the alert keys of a run)
MaxAlerts == 2
MaxAlertsAdded == 5
TriggeredAlertsLimit == 1

\* AlertsService.__init__ and start(); raised counts, per alert key, the
\* alerts added since triggered_alerts was last emptied
NewAlertsService == [triggered_alerts |-> {}, raised |-> <<>>, running |-> TRUE]

\* MarketDataService: market_indices, the symbols a run subscribes to,
\* max_subscriptions_per_session (settings.data.max_market_data_subscriptions)
\* of the explored runs, the retry limit of lines 176 and 351, and the
\* threads that call the service
MarketIndices == <<"SPY", "QQQ">>
MdsSymbols == {"SPY", "QQQ", "AAPL"}
MaxSubscriptions == 2
MaxRetries == 3
MdsThreads == {"service", "api"}

IdleSubscriber == [pc |-> "idle", symbol |-> "", retry |-> {}, first |-> FALSE]

\* MarketDataService.__init__ and start(): the service thread is about to run
\* _setup_initial_subscriptions; requests counts, per symbol, the failed
\* requests since its failure record was last cleared
NewMarketDataService ==
    [subscribed_symbols |-> {}, failed_symbols |-> {},
     subscription_retry_count |-> [s \in MdsSymbols |-> 0],
     setup |-> MarketIndices, subscription_count |-> 0, running |-> TRUE,
     requests |-> [s \in MdsSymbols |-> 0],
     threads |-> [t \in MdsThreads |-> IdleSubscriber]]

\* quantum_trader_simple: the position ids of the explored runs, and the two
\* threads outside their operations
PositionIds == {"ACC1_AAPL_STK", "ACC1_ES_FUT_202512"}
IdleMarketService ==
    [pc |-> "idle", updated_positions |-> <<>>, position_dict |-> <<>>]
IdlePositionService == [pc |-> "idle", update |-> <<>>]
\* DataStore._lock free; ids holds the ids of the list of the last
\* update_positions call that took the lock, before the ids that were stored
\* when it took it
FreeStoreLock == [owner |-> "", ids |-> {}, before |-> {}]

IdleService ==
    [pc |-> "idle", acct |-> "", k |-> 0, n |-> 0, phase |-> 0, idx |-> 0,
     position_value |-> 0, old_market_value |-> 0, new_price |-> 0,
     detached |-> FALSE, orphan |-> FALSE]

Init ==
    /\ market_data = [s \in Symbols |-> None]
    /\ greeks_data = [s \in Symbols |-> None]
    /\ portfolios = [a \in AccountIds |-> None]
    /\ order = <<>>
    /\ gen = [a \in AccountIds |-> 0]
    /\ account_data = [a \in AccountIds |-> None]
    /\ svc = IdleService
    /\ tracked_accounts = {}
    /\ snap = None
    /\ last = [op |-> "init", locked |-> FALSE]
    /\ lock = FreeLock
    /\ threads = [t \in LockThreads |-> IdleThread]
    /\ store_positions = [id \in PositionIds |-> None]
    /\ position_cache = [id \in PositionIds |-> None]
    /\ market_data_cache = [s \in Symbols |-> None]
    /\ market_service = IdleMarketService
    /\ position_service = IdlePositionService
    /\ store_lock = FreeStoreLock
    /\ store_snapshot = <<>>
    /\ client = NewClient
    /\ callers = [t \in ClientThreads |-> IdleCaller]
    /\ mds = NewMarketDataService
    /\ alerts = <<>>
    /\ alerts_added = 0
    /\ alerts_service = NewAlertsService

----------------------------------------------------------------------------
(* Feed handlers: the callbacks main.py registers, each under DataManager._lock *)

\* main.on_market_data_update -> DataManager.update_market_data
UpdateMarketDataBody(symbol, price_data) ==
    /\ market_data' = [market_data EXCEPT ![symbol] = Some(NewMarketData(@, price_data))]
    /\ last' = [op |-> "update_market_data", locked |-> TRUE, symbol |-> symbol,
                data |-> price_data]
    /\ UNCHANGED <<greeks_data, portfolios, order, gen, account_data, svc,
                   tracked_accounts, snap>>

\* the call as one step, the lock free before and after it
UpdateMarketData(symbol, price_data) == UpdateMarketDataBody(symbol, price_data) /\ Elsewhere

\* IBKRWrapper.tickOptionComputation: a tick of another type is dropped; the
\* validated Greeks go to both 'market_data' callbacks, first
\* on_market_data_update (update_market_data finds no last_price and no close
\* in the Greeks dict) and then on_greeks_update (update_greeks_data)
TickOptionComputation(symbol, tick) ==
    /\ IF tick.tickType \in ModelOptionTicks
       THEN /\ market_data' = [market_data EXCEPT ![symbol] =
                   Some(NewMarketData(@, [last_price |-> 0, close |-> 0]))]
            /\ greeks_data' = [greeks_data EXCEPT ![symbol] = Some(GreeksOf(tick))]
            /\ portfolios' = AttachGreeks(portfolios, symbol, GreeksOf(tick))
       ELSE UNCHANGED <<market_data, greeks_data, portfolios>>
    /\ last' = [op |-> "tickOptionComputation", locked |-> TRUE, symbol |-> symbol,
                data |-> tick]
    /\ UNCHANGED <<order, gen, account_data, svc, tracked_accounts, snap>>
    /\ Elsewhere

\* the Greeks and day P&L of the stored position that add_position
\* overwrites with the position built from this delta, if it overwrites one
ReplacedPosition(pfs, account_id, position_data, quotes) ==
    LET new == CreatePositionFromContract(position_data.contract, position_data, quotes)
    IN  IF position_data.position = 0 \/ pfs[account_id] = None \/ new = None
        THEN None
        ELSE LET positions == Val(pfs[account_id]).positions
                 m == MatchingIndexes(positions, Val(new))
             IN  IF m = {} THEN None
                 ELSE Some([greeks |-> positions[Min(m)].greeks,
                            day_pnl |-> positions[Min(m)].day_pnl])

\* whether update_position replaces the Position object the service thread
\* is inside update_price of
ReplacesServicePosition(account_id, position_data) ==
    /\ svc.pc \in {"up90", "up91", "up94", "up95", "up101"}
    /\ svc.acct = account_id
    /\ position_data.position # 0
    /\ portfolios[account_id] # None
    /\ LET new == CreatePositionFromContract(position_data.contract, position_data,
                                             market_data)
       IN  /\ IsSome(new)
           /\ MatchingIndexes(Val(portfolios[account_id]).positions, Val(new)) # {}
           /\ Min(MatchingIndexes(Val(portfolios[account_id]).positions, Val(new)))
                  = svc.idx

\* main.on_position_update -> DataManager.update_position
UpdatePositionBody(account_id, position_data) ==
    /\ portfolios[account_id] = None => gen[account_id] < MaxGenerations
    /\ LET result == UpdatePositionResult(portfolios, account_id, position_data,
                                          market_data)
       IN  /\ result[account_id] # None =>
                  Len(Val(result[account_id]).positions) <= MaxPositions
           /\ portfolios' = result
           /\ IF portfolios[account_id] = None /\ result[account_id] # None
              THEN /\ order' = Append(order, account_id)
                   /\ gen' = [gen EXCEPT ![account_id] = @ + 1]
              ELSE UNCHANGED <<order, gen>>
    /\ svc' = IF ReplacesServicePosition(account_id, position_data)
              THEN [svc EXCEPT !.detached = TRUE]
              ELSE svc
    /\ last' = [op |-> "update_position", locked |-> TRUE, account |-> account_id,
                data |-> position_data,
                faulted |-> UpdatePositionFaults(portfolios, account_id, position_data),
                replaced |-> ReplacedPosition(portfolios, account_id, position_data,
                                              market_data)]
    /\ UNCHANGED <<market_data, greeks_data, account_data, tracked_accounts, snap>>

\* the call as one step, the lock free before and after it
UpdatePosition(account_id, position_data) == UpdatePositionBody(account_id, position_data) /\ Elsewhere

\* main.on_account_update -> DataManager.update_account_value
UpdateAccountValueBody(account_id, key, value) ==
    /\ account_data' = AccountDataResult(account_data, account_id, key, value)
    /\ portfolios' = UpdateAccountValueResult(portfolios, account_id, key, value)
    /\ last' = [op |-> "update_account_value", locked |-> TRUE, account |-> account_id,
                key |-> key, data |-> value,
                faulted |-> UpdateAccountValueFaults(portfolios, account_id, key, value)]
    /\ UNCHANGED <<market_data, greeks_data, order, gen, svc, tracked_accounts, snap>>

\* the call as one step, the lock free before and after it
UpdateAccountValue(account_id, key, value) == UpdateAccountValueBody(account_id, key, value) /\ Elsewhere

\* IBKRWrapper.updateAccountValue: only the important keys reach the
\* 'account_update' callback
updateAccountValue(key, val, accountName) ==
    IF key \in ImportantKeys
    THEN UpdateAccountValue(accountName, key, val)
    ELSE /\ last' = [op |-> "updateAccountValue", locked |-> FALSE,
                     account |-> accountName, key |-> key, data |-> val,
                     faulted |-> FALSE]
         /\ UNCHANGED <<market_data, greeks_data, portfolios, order, gen,
                        account_data, svc, tracked_accounts, snap>>
         /\ Elsewhere

\* DataManager.get_dashboard_data: portfolios=self.portfolios.copy() is a new
\* dict holding the same Portfolio objects
GetDashboardDataBody ==
    /\ snap' = Some([a \in AccountIds |-> IF portfolios[a] = None THEN 0 ELSE gen[a]])
    /\ last' = [op |-> "get_dashboard_data", locked |-> TRUE]
    /\ UNCHANGED <<market_data, greeks_data, portfolios, order, gen, account_data,
                   svc, tracked_accounts>>

\* the call as one step, the lock free before and after it
GetDashboardData == GetDashboardDataBody /\ Elsewhere

----------------------------------------------------------------------------
(* services/portfolio_service.py: the service thread.  It takes no lock, so  *)
(* its statements interleave with the handlers above; each action below is   *)
(* one statement of _update_portfolio_calculations, Portfolio.calculate_totals *)
(* or Position.update_price.                                                 *)

ServiceStep == [op |-> "_update_portfolio_calculations", locked |-> FALSE]

\* the Portfolio object the service thread holds is still the one in the dict
ServicePortfolioLive == svc.acct \in Accounts /\ portfolios[svc.acct] # None /\ ~svc.orphan

ServicePortfolio == Val(portfolios[svc.acct])

\* a write of the service thread to its Portfolio object
ServiceWrites(pf) ==
    portfolios' = [portfolios EXCEPT ![svc.acct] = Some(pf)]

ServiceFrame == UNCHANGED <<market_data, greeks_data, order, gen, account_data,
                            tracked_accounts, snap, lock_vars, simple_vars, outer_vars>>

\* line 183: the iterator over self.data_manager.portfolios.values()
ServiceStart ==
    /\ svc.pc = "idle"
    /\ svc' = [IdleService EXCEPT !.pc = "next", !.n = Len(order)]
    /\ last' = ServiceStep
    /\ UNCHANGED portfolios
    /\ ServiceFrame

\* line 183, the iterator's next(): RuntimeError (caught at line 196) when the
\* dict changed size, the next portfolio, or the end of the pass
ServiceNextPortfolio ==
    /\ svc.pc = "next"
    /\ svc' = IF Len(order) # svc.n \/ svc.k >= Len(order)
              THEN IdleService
              ELSE [IdleService EXCEPT !.pc = "ct145", !.acct = order[svc.k + 1],
                                       !.k = svc.k + 1, !.n = svc.n, !.phase = 1]
    /\ last' = ServiceStep
    /\ UNCHANGED portfolios
    /\ ServiceFrame

\* a Portfolio object that remove_account took out of the dict: what the rest
\* of the loop body does to it is seen by nobody
ServiceOrphan ==
    /\ svc.pc \notin {"idle", "next"}
    /\ ~ServicePortfolioLive
    /\ svc' = [IdleService EXCEPT !.pc = "next", !.k = svc.k, !.n = svc.n]
    /\ last' = ServiceStep
    /\ UNCHANGED portfolios
    /\ ServiceFrame

\* models/portfolio.py line 145
ServiceTotals145 ==
    /\ svc.pc = "ct145" /\ ServicePortfolioLive
    /\ svc' = [svc EXCEPT !.pc = "ct146",
                          !.position_value = SumOver(ServicePortfolio.positions, "market_value")]
    /\ last' = ServiceStep
    /\ UNCHANGED portfolios
    /\ ServiceFrame

\* line 146
ServiceTotals146 ==
    /\ svc.pc = "ct146" /\ ServicePortfolioLive
    /\ ServiceWrites([ServicePortfolio EXCEPT
           !.total_value = svc.position_value + ServicePortfolio.cash_balance])
    /\ svc' = [svc EXCEPT !.pc = "ct147", !.position_value = 0]
    /\ last' = ServiceStep
    /\ ServiceFrame

\* line 147
ServiceTotals147 ==
    /\ svc.pc = "ct147" /\ ServicePortfolioLive
    /\ ServiceWrites([ServicePortfolio EXCEPT
           !.day_pnl = SumOver(ServicePortfolio.positions, "day_pnl")])
    /\ svc' = [svc EXCEPT !.pc = "ct148"]
    /\ last' = ServiceStep
    /\ ServiceFrame

\* line 148
ServiceTotals148 ==
    /\ svc.pc = "ct148" /\ ServicePortfolioLive
    /\ ServiceWrites([ServicePortfolio EXCEPT
           !.total_pnl = SumOver(ServicePortfolio.positions, "total_pnl")])
    /\ svc' = [svc EXCEPT !.pc = "ct151"]
    /\ last' = ServiceStep
    /\ ServiceFrame

\* lines 150-157, then back in _update_portfolio_calculations: the positions
\* after the first calculate_totals (line 185), the next portfolio after the
\* second (line 194)
ServiceTotals151 ==
    /\ svc.pc = "ct151" /\ ServicePortfolioLive
    /\ ServiceWrites(TotalsPercents(ServicePortfolio))
    /\ svc' = IF svc.phase = 1
              THEN [svc EXCEPT !.pc = "pos", !.idx = 1]
              ELSE [IdleService EXCEPT !.pc = "next", !.k = svc.k, !.n = svc.n]
    /\ last' = ServiceStep
    /\ ServiceFrame

\* services/portfolio_service.py lines 188-190: the list iterator's next
\* position and its quote
ServiceNextPosition ==
    /\ svc.pc = "pos" /\ ServicePortfolioLive
    /\ svc' = IF svc.idx > Len(ServicePortfolio.positions)
              THEN [svc EXCEPT !.pc = "ct145", !.phase = 2, !.idx = 0]
              ELSE LET quote == market_data[ServicePortfolio.positions[svc.idx].symbol]
                   IN  IF IsSome(quote) /\ Val(quote).price > 0
                       THEN [svc EXCEPT !.pc = "up90", !.new_price = Val(quote).price,
                                        !.detached = FALSE]
                       ELSE [svc EXCEPT !.idx = svc.idx + 1]
    /\ last' = ServiceStep
    /\ UNCHANGED portfolios
    /\ ServiceFrame

ServicePosition == ServicePortfolio.positions[svc.idx]

\* a write of the service thread to the Position object it holds; a Position
\* that update_position has replaced in the list is no longer seen
ServiceWritesPosition(position) ==
    IF svc.detached THEN UNCHANGED portfolios
    ELSE ServiceWrites([ServicePortfolio EXCEPT !.positions[svc.idx] = position])

\* models/portfolio.py line 90
ServicePrice90 ==
    /\ svc.pc = "up90" /\ ServicePortfolioLive
    /\ svc' = [svc EXCEPT !.pc = "up91",
                          !.old_market_value =
                              IF svc.detached THEN 0 ELSE ServicePosition.market_value]
    /\ last' = ServiceStep
    /\ UNCHANGED portfolios
    /\ ServiceFrame

\* line 91
ServicePrice91 ==
    /\ svc.pc = "up91" /\ ServicePortfolioLive
    /\ ServiceWritesPosition([ServicePosition EXCEPT !.current_price = svc.new_price])
    /\ svc' = [svc EXCEPT !.pc = "up94"]
    /\ last' = ServiceStep
    /\ ServiceFrame

\* lines 94 and 97
ServicePrice94 ==
    /\ svc.pc = "up94" /\ ServicePortfolioLive
    /\ ServiceWritesPosition([ServicePosition EXCEPT !.market_value =
           ServicePosition.quantity * svc.new_price
               * Multiplier(ServicePosition.position_type)])
    /\ svc' = [svc EXCEPT !.pc = "up95"]
    /\ last' = ServiceStep
    /\ ServiceFrame

\* lines 95 and 98
ServicePrice95 ==
    /\ svc.pc = "up95" /\ ServicePortfolioLive
    /\ ServiceWritesPosition([ServicePosition EXCEPT !.unrealized_pnl =
           (svc.new_price - ServicePosition.avg_cost) * ServicePosition.quantity
               * Multiplier(ServicePosition.position_type)])
    /\ svc' = [svc EXCEPT !.pc = "up101"]
    /\ last' = ServiceStep
    /\ ServiceFrame

\* line 101, and back to the loop of line 188
ServicePrice101 ==
    /\ svc.pc = "up101" /\ ServicePortfolioLive
    /\ ServiceWritesPosition([ServicePosition EXCEPT !.day_pnl =
           ServicePosition.market_value - svc.old_market_value])
    /\ svc' = [svc EXCEPT !.pc = "pos", !.idx = svc.idx + 1, !.old_market_value = 0,
                          !.new_price = 0, !.detached = FALSE]
    /\ last' = ServiceStep
    /\ ServiceFrame

\* PortfolioService.add_account
AddAccount(account_id) ==
    /\ account_id \notin tracked_accounts
    /\ tracked_accounts' = tracked_accounts \cup {account_id}
    /\ last' = [op |-> "add_account", locked |-> FALSE, account |-> account_id]
    /\ UNCHANGED <<market_data, greeks_data, portfolios, order, gen, account_data,
                   svc, snap>>
    /\ Elsewhere

\* PortfolioService.remove_account: del self.data_manager.portfolios[account_id]
\* with no lock taken
RemoveAccount(account_id) ==
    /\ account_id \in tracked_accounts
    /\ tracked_accounts' = tracked_accounts \ {account_id}
    /\ portfolios' = [portfolios EXCEPT ![account_id] = None]
    /\ order' = SelectSeq(order, LAMBDA a : a # account_id)
    /\ svc' = IF svc.acct = account_id /\ portfolios[account_id] # None
              THEN [svc EXCEPT !.orphan = TRUE]
              ELSE svc
    /\ last' = [op |-> "remove_account", locked |-> FALSE, account |-> account_id]
    /\ UNCHANGED <<market_data, greeks_data, gen, account_data, snap>>
    /\ Elsewhere

----------------------------------------------------------------------------

\* PortfolioService._update_portfolio_calculations run without interruption
RECURSIVE UpdatePrices(_, _)
UpdatePrices(positions, quotes) ==
    IF positions = <<>> THEN <<>>
    ELSE LET position == positions[1]
             quote == quotes[position.symbol]
             new_price == Val(quote).price
             market_value == position.quantity * new_price
                                 * Multiplier(position.position_type)
         IN  <<IF IsSome(quote) /\ Val(quote).price > 0
               THEN [position EXCEPT
                        !.current_price = new_price,
                        !.market_value = market_value,
                        !.unrealized_pnl = (new_price - position.avg_cost)
                            * position.quantity * Multiplier(position.position_type),
                        !.day_pnl = market_value - position.market_value]
               ELSE position>>
             \o UpdatePrices(Tail(positions), quotes)

UpdatePortfolioCalculations ==
    /\ svc.pc = "idle"
    /\ portfolios' = [a \in AccountIds |->
           IF portfolios[a] = None THEN None
           ELSE Some(CalculateTotals(
                    [CalculateTotals(Val(portfolios[a])) EXCEPT
                        !.positions = UpdatePrices(@, market_data)]))]
    /\ last' = ServiceStep
    /\ UNCHANGED svc
    /\ ServiceFrame

----------------------------------------------------------------------------
(* DataManager._lock: the calls of the feed and reader threads into          *)
(* DataManager, statement by statement around the with-blocks                *)

\* update_account_value without its try ... except
HandlerCatchesButAccount ==
    {"update_market_data", "update_greeks_data", "update_position", "get_dashboard_data"}

\* the operations whose with-block body is a try ... except Exception
HandlerCatches ==
    {"update_market_data", "update_greeks_data", "update_position",
     "update_account_value", "get_dashboard_data"}

\* the feed handlers, whose with-block body is one step here
FeedHandlers == {"update_market_data", "update_position", "update_account_value"}

\* threading.Lock in the place of the RLock: no second acquire by the owner
CanAcquireOnce(t) == lock.owner = ""

\* threading.RLock: free, or owned by the thread that asks
CanAcquire(t) == lock.owner = "" \/ lock.owner = t

Top(t) == threads[t].stack[1]
InCall(t, ops, pc) ==
    threads[t].stack # <<>> /\ Top(t).call.op \in ops /\ Top(t).pc = pc

\* len(self.portfolios)
PortfolioCount == Cardinality({a \in AccountIds : portfolios[a] # None})

\* the first statement inside the with-block of an operation
FirstPc(op) ==
    CASE op = "get_dashboard_data" -> "risk_iter"
      [] op = "get_statistics" -> "stats_iter"
      [] OTHER -> "body"

\* the thread's innermost frame moves to pc
Goto(t, pc) == [threads EXCEPT ![t].stack[1].pc = pc]

\* the thread's innermost frame moves to pc and calls op
CallFrom(t, pc, op) ==
    [threads EXCEPT ![t].stack =
        <<[call |-> [op |-> op], pc |-> "acquire"], [Top(t) EXCEPT !.pc = pc]>>
        \o Tail(@)]

EngineFrame ==
    UNCHANGED <<market_data, greeks_data, portfolios, order, gen, account_data, svc,
                tracked_accounts, snap, last>>

\* a thread calls a public operation of DataManager
Call(t, c) ==
    /\ threads[t].stack = <<>>
    /\ threads' = [threads EXCEPT ![t] =
           [IdleThread EXCEPT !.stack = <<[call |-> c, pc |-> "acquire"]>>]]
    /\ EngineFrame
    /\ UNCHANGED <<lock, simple_vars, outer_vars>>

\* with self._lock: __enter__
Acquire(t) ==
    /\ threads[t].stack # <<>>
    /\ Top(t).pc = "acquire"
    /\ CanAcquire(t)
    /\ lock' = [owner |-> t, count |-> lock.count + 1]
    /\ threads' = Goto(t, FirstPc(Top(t).call.op))
    /\ EngineFrame
    /\ UNCHANGED <<simple_vars, outer_vars>>

\* whether the body of a feed handler meets an exception, and whether a
\* function called by the body catches it before the handler's own except
HandlerFaults(c) ==
    CASE c.op = "update_position" -> UpdatePositionFaults(portfolios, c.account, c.data)
      [] c.op = "update_account_value" ->
             UpdateAccountValueFaults(portfolios, c.account, c.key, c.data)
      [] OTHER -> FALSE
CaughtInside(c) == c.op = "update_position"

\* the body of a feed handler, inside the with-block
HandlerStep(t) ==
    /\ InCall(t, FeedHandlers, "body")
    /\ lock.owner = t
    /\ LET c == Top(t).call
           escapes == HandlerFaults(c) /\ ~CaughtInside(c) /\ c.op \notin HandlerCatches
       IN  /\ \/ c.op = "update_position" /\ UpdatePositionBody(c.account, c.data)
              \/ c.op = "update_account_value"
                     /\ UpdateAccountValueBody(c.account, c.key, c.data)
              \/ c.op = "update_market_data" /\ UpdateMarketDataBody(c.symbol, c.data)
           /\ threads' = [threads EXCEPT
                  ![t].stack[1].pc = "release",
                  ![t].exc = escapes,
                  ![t].outcome = IF HandlerFaults(c) /\ ~escapes THEN "caught" ELSE @]
    /\ UNCHANGED <<lock, simple_vars, outer_vars>>

\* the body of get_index_data and of get_active_alerts
ReadStep(t) ==
    /\ InCall(t, {"get_index_data", "get_active_alerts"}, "body")
    /\ lock.owner = t
    /\ threads' = Goto(t, "release")
    /\ EngineFrame
    /\ UNCHANGED <<lock, simple_vars, outer_vars>>

\* get_dashboard_data, _calculate_risk_metrics, and get_statistics, line 541:
\* the iteration over self.portfolios.values() starts
IterStart(t) ==
    /\ \/ InCall(t, {"get_dashboard_data"}, "risk_iter")
       \/ InCall(t, {"get_statistics"}, "stats_iter")
    /\ lock.owner = t
    /\ threads' = [threads EXCEPT
           ![t].size = PortfolioCount,
           ![t].stack[1].pc = IF Top(t).pc = "risk_iter" THEN "risk_next" ELSE "stats_next"]
    /\ EngineFrame
    /\ UNCHANGED <<lock, simple_vars, outer_vars>>

\* the iteration goes on: RuntimeError if the dict changed size since it
\* started (PortfolioService.remove_account deletes from it without the lock).
\* get_dashboard_data catches it at line 439; get_statistics has no try
IterNext(t) ==
    /\ \/ InCall(t, {"get_dashboard_data"}, "risk_next")
       \/ InCall(t, {"get_statistics"}, "stats_next")
    /\ lock.owner = t
    /\ LET op == Top(t).call.op
       IN  threads' =
               IF PortfolioCount = threads[t].size
               THEN IF op = "get_dashboard_data" THEN Goto(t, "status")
                    ELSE CallFrom(t, "release", "get_active_alerts")
               ELSE IF op \in HandlerCatches THEN Goto(t, "except")
               ELSE [threads EXCEPT ![t].stack[1].pc = "release", ![t].exc = TRUE]
    /\ EngineFrame
    /\ UNCHANGED <<lock, simple_vars, outer_vars>>

\* get_dashboard_data, line 425: _update_system_status calls get_active_alerts
DashboardStatus(t) ==
    /\ InCall(t, {"get_dashboard_data"}, "status")
    /\ lock.owner = t
    /\ threads' = CallFrom(t, "index", "get_active_alerts")
    /\ EngineFrame
    /\ UNCHANGED <<lock, simple_vars, outer_vars>>

\* get_dashboard_data, line 429: market_indices=self.get_index_data()
DashboardIndex(t) ==
    /\ InCall(t, {"get_dashboard_data"}, "index")
    /\ lock.owner = t
    /\ threads' = CallFrom(t, "copy", "get_index_data")
    /\ EngineFrame
    /\ UNCHANGED <<lock, simple_vars, outer_vars>>

\* get_dashboard_data, line 430: portfolios=self.portfolios.copy()
DashboardCopy(t) ==
    /\ InCall(t, {"get_dashboard_data"}, "copy")
    /\ lock.owner = t
    /\ GetDashboardDataBody
    /\ threads' = Goto(t, "alerts")
    /\ UNCHANGED <<lock, simple_vars, outer_vars>>

\* get_dashboard_data, line 431: alerts=self.get_active_alerts()
DashboardAlerts(t) ==
    /\ InCall(t, {"get_dashboard_data"}, "alerts")
    /\ lock.owner = t
    /\ threads' = CallFrom(t, "release", "get_active_alerts")
    /\ EngineFrame
    /\ UNCHANGED <<lock, simple_vars, outer_vars>>

\* get_dashboard_data, lines 439-441: return self._get_empty_dashboard_data()
DashboardExcept(t) ==
    /\ InCall(t, {"get_dashboard_data"}, "except")
    /\ lock.owner = t
    /\ snap' = Some([a \in AccountIds |-> 0])
    /\ last' = [op |-> "get_dashboard_data", locked |-> TRUE]
    /\ threads' = [threads EXCEPT ![t].stack[1].pc = "release", ![t].outcome = "caught"]
    /\ UNCHANGED <<market_data, greeks_data, portfolios, order, gen, account_data,
                   svc, tracked_accounts>>
    /\ UNCHANGED <<lock, simple_vars, outer_vars>>

\* with self._lock: __exit__, on return and on an exception alike, and the
\* return to the caller; an exception in flight goes on in the caller's frame
Release(t) ==
    /\ threads[t].stack # <<>>
    /\ Top(t).pc = "release"
    /\ lock.owner = t
    /\ lock' = IF lock.count = 1 THEN FreeLock ELSE [lock EXCEPT !.count = @ - 1]
    /\ LET th == threads[t]
           rest == Tail(th.stack)
       IN  threads' = [threads EXCEPT ![t] =
               IF rest = <<>>
               THEN [th EXCEPT !.stack = <<>>, !.exc = FALSE, !.size = 0,
                               !.outcome = IF th.exc THEN "propagated"
                                           ELSE IF @ = "caught" THEN "caught"
                                           ELSE "returned"]
               ELSE IF ~th.exc THEN [th EXCEPT !.stack = rest]
               ELSE IF rest[1].call.op \in HandlerCatches
               THEN [th EXCEPT !.stack = <<[rest[1] EXCEPT !.pc = "except"]>> \o Tail(rest),
                               !.exc = FALSE]
               ELSE [th EXCEPT !.stack = <<[rest[1] EXCEPT !.pc = "release"]>> \o Tail(rest)]]
    /\ EngineFrame
    /\ UNCHANGED <<simple_vars, outer_vars>>

----------------------------------------------------------------------------

(* quantum_trader_simple: DataStore (core/data_store.py), the position       *)
(* callback of PositionService on the feed thread and the price pass of      *)
(* MarketService on its own thread.  Every DataStore call is one step (it    *)
(* holds DataStore._lock); the statements between two calls hold no lock.    *)

\* PositionService._generate_position_id: the key string the id is the
\* digest of
PositionId(contract, account) ==
    CASE contract = StkAapl /\ account = "ACC1" -> "ACC1_AAPL_STK"
      [] contract = FutEs /\ account = "ACC1" -> "ACC1_ES_FUT_202512"

\* PositionService._get_position_type
SimplePositionType(contract) ==
    CASE contract.secType = "STK" -> "stock"
      [] contract.secType = "OPT" -> IF Upper(contract.right) = "C" THEN "call" ELSE "put"
      [] contract.secType = "FUT" -> "future"
      [] OTHER -> "other"

\* PositionService._create_position_data
CreatePositionData(ibkr_data, account) ==
    [id |-> PositionId(ibkr_data.contract, account),
     symbol |-> ibkr_data.contract.symbol,
     position_type |-> SimplePositionType(ibkr_data.contract),
     quantity |-> IntOfQuantity(ibkr_data.position),
     avg_cost |-> ibkr_data.average_cost,
     current_price |-> ibkr_data.market_price,
     market_value |-> ibkr_data.market_value,
     unrealized_pnl |-> ibkr_data.unrealized_pnl]

\* DataStore.update_positions, lines 30-37: the loop that merges the list
UpdatePositionsMerge(store, positions_data) ==
    [id \in PositionIds |->
        IF positions_data[id] # None THEN positions_data[id] ELSE store[id]]

\* DataStore.update_positions, lines 39-41: the ids that are not in the list
\* are deleted
UpdatePositionsDelete(store, positions_data) ==
    [id \in PositionIds |-> IF positions_data[id] # None THEN store[id] ELSE None]

\* DataStore.update_positions: the positions of the list are merged into the
\* store, and every id of the store that is not in the list is deleted
UpdatePositions(store, positions_data) ==
    UpdatePositionsDelete(UpdatePositionsMerge(store, positions_data), positions_data)

\* MarketService._update_position_prices, lines 369-404: the repriced copy of
\* a position, or None when the cache has no new positive price for it
Repriced(position, quotes) ==
    LET new_price == Val(quotes[position.symbol])
        multiplier == IF position.position_type \in {"call", "put"} THEN 100 ELSE 1
    IN  IF quotes[position.symbol] = None THEN None
        ELSE IF new_price > 0 /\ new_price # position.current_price
        THEN Some([position EXCEPT
                     !.current_price = new_price,
                     !.market_value = position.quantity * new_price * multiplier,
                     !.unrealized_pnl =
                         (new_price - position.avg_cost) * position.quantity * multiplier])
        ELSE None

BackendFrame ==
    UNCHANGED <<market_data, greeks_data, portfolios, order, gen, account_data, svc,
                tracked_accounts, snap, last, lock_vars, outer_vars>>

\* a store whose methods take no lock
StoreLockSkipped == TRUE

\* with self._lock: the lock is free (a thread of the model never calls the
\* store while it holds the lock itself)
StoreLockFree == store_lock.owner = ""

\* a handler that skips no update
SkipsNoUpdate(position_qty) == FALSE

\* PositionService._on_position_update, line 114: if position_qty == 0: return
SkipsUpdate(position_qty) == position_qty = 0

\* MarketService._on_market_data_update, on the feed thread
OnMarketDataUpdate(symbol, last_price) ==
    /\ position_service.pc = "idle"
    /\ market_data_cache' = [market_data_cache EXCEPT ![symbol] = Some(last_price)]
    /\ UNCHANGED <<store_positions, position_cache, market_service, position_service,
                   store_lock, store_snapshot>>
    /\ BackendFrame

\* PositionService._on_position_update, lines 109-123: a zero quantity
\* returns at once, any other updates the cache
OnPositionUpdate(position_data, account) ==
    /\ position_service.pc = "idle"
    /\ IF SkipsUpdate(position_data.position)
       THEN /\ position_service' =
                   [pc |-> "idle",
                    update |-> <<PositionId(position_data.contract, account),
                                 position_data.position>>]
            /\ UNCHANGED position_cache
       ELSE /\ position_cache' = [position_cache EXCEPT
                   ![PositionId(position_data.contract, account)] =
                       Some(CreatePositionData(position_data, account))]
            /\ position_service' =
                   [pc |-> "store",
                    update |-> <<PositionId(position_data.contract, account),
                                 position_data.position>>]
    /\ UNCHANGED <<store_positions, market_data_cache, market_service, store_lock,
                   store_snapshot>>
    /\ BackendFrame

\* PositionService._on_position_update, lines 126-127:
\* self.data_store.update_positions(list(self.position_cache.values())),
\* here the lock taken and the merging loop
OnPositionUpdateStore ==
    /\ position_service.pc = "store"
    /\ StoreLockFree
    /\ store_lock' = [owner |-> "feed",
                      ids |-> {id \in PositionIds : position_cache[id] # None},
                      before |-> {id \in PositionIds : store_positions[id] # None}]
    /\ store_positions' = UpdatePositionsMerge(store_positions, position_cache)
    /\ position_service' = [position_service EXCEPT !.pc = "delete"]
    /\ UNCHANGED <<position_cache, market_data_cache, market_service, store_snapshot>>
    /\ BackendFrame

\* the same call: the deletion, and the lock released
OnPositionUpdateDelete ==
    /\ position_service.pc = "delete"
    /\ store_positions' = UpdatePositionsDelete(store_positions, position_cache)
    /\ store_lock' = [store_lock EXCEPT !.owner = ""]
    /\ position_service' = [position_service EXCEPT !.pc = "idle"]
    /\ UNCHANGED <<position_cache, market_data_cache, market_service, store_snapshot>>
    /\ BackendFrame

\* _update_position_prices, lines 366-404: get_positions() and the loop that
\* builds updated_positions; the pass ends here when that list is empty
UpdatePositionPrices ==
    /\ market_service.pc = "idle"
    /\ StoreLockFree
    /\ LET updated_positions ==
               [id \in PositionIds |->
                   IF store_positions[id] = None THEN None
                   ELSE Repriced(Val(store_positions[id]), market_data_cache)]
       IN  /\ \E id \in PositionIds : updated_positions[id] # None
           /\ market_service' = [pc |-> "reread", updated_positions |-> updated_positions,
                                 position_dict |-> <<>>]
    /\ UNCHANGED <<store_positions, position_cache, market_data_cache, position_service,
                   store_lock, store_snapshot>>
    /\ BackendFrame

\* _update_position_prices, lines 408-412: the second get_positions() and the
\* dict of all positions with the repriced ones put in
UpdatePositionPricesMerge ==
    /\ market_service.pc = "reread"
    /\ StoreLockFree
    /\ market_service' = [market_service EXCEPT
           !.pc = "write",
           !.position_dict = [id \in PositionIds |->
               IF market_service.updated_positions[id] # None
               THEN market_service.updated_positions[id]
               ELSE store_positions[id]]]
    /\ UNCHANGED <<store_positions, position_cache, market_data_cache, position_service,
                   store_lock, store_snapshot>>
    /\ BackendFrame

\* _update_position_prices, line 414:
\* self.data_store.update_positions(list(position_dict.values())),
\* here the lock taken and the merging loop
UpdatePositionPricesWrite ==
    /\ market_service.pc = "write"
    /\ StoreLockFree
    /\ store_lock' = [owner |-> "market",
                      ids |-> {id \in PositionIds : market_service.position_dict[id] # None},
                      before |-> {id \in PositionIds : store_positions[id] # None}]
    /\ store_positions' = UpdatePositionsMerge(store_positions, market_service.position_dict)
    /\ market_service' = [market_service EXCEPT !.pc = "delete"]
    /\ UNCHANGED <<position_cache, market_data_cache, position_service, store_snapshot>>
    /\ BackendFrame

\* the same call: the deletion, and the lock released
UpdatePositionPricesDelete ==
    /\ market_service.pc = "delete"
    /\ store_positions' = UpdatePositionsDelete(store_positions, market_service.position_dict)
    /\ store_lock' = [store_lock EXCEPT !.owner = ""]
    /\ market_service' = IdleMarketService
    /\ UNCHANGED <<position_cache, market_data_cache, position_service, store_snapshot>>
    /\ BackendFrame

\* DataStore.get_snapshot, called by the websocket server: the ids of the
\* positions it returns
GetSnapshot ==
    /\ StoreLockFree
    /\ store_snapshot' = Some([ids |-> {id \in PositionIds : store_positions[id] # None},
                               list |-> store_lock.ids,
                               before |-> store_lock.before])
    /\ store_snapshot' # store_snapshot
    /\ UNCHANGED <<store_positions, position_cache, market_data_cache, market_service,
                   position_service, store_lock>>
    /\ BackendFrame

----------------------------------------------------------------------------

(* IBKRClient (core/ibkr_client.py): the connection callbacks of IBKRWrapper  *)
(* on the connection thread, and ensure_connection, reconnect,                *)
(* connect_and_run and get_next_req_id as the service threads run them.       *)
(* reconnect takes no lock for its check and its increment; connect_and_run   *)
(* and disconnect_and_stop hold _connection_lock, get_next_req_id holds       *)
(* _req_id_lock.                                                              *)

ClientFrame ==
    UNCHANGED <<market_data, greeks_data, portfolios, order, gen, account_data, svc,
                tracked_accounts, snap, lock_vars, simple_vars, mds, alert_vars>>

\* IBKRClient.is_connected
IsConnected(c) == c.connected /\ c.connection_ready /\ c.socket

\* a drop that leaves the event set
ConnectionDroppedKeepsEvent(c) ==
    [c EXCEPT !.connected = FALSE, !.connection_ready = FALSE]

\* connectionClosed lines 75-77, error lines 285-287, connect_and_run lines
\* 350-352: the three fields cleared
ConnectionDropped(c) ==
    [c EXCEPT !.connected = FALSE, !.connection_ready = FALSE, !.connection_event = FALSE]

\* IBKRWrapper.error: the codes that clear the connection state
ConnectionErrors == {502, 503, 504, 1100, 1101, 1102}
\* the codes of the explored runs: a connection error, a market data error
\* and an informational message
ErrorCodes == {1100, 200, 2104}

\* a get_next_req_id that takes no lock
ReqIdLockSkipped == TRUE

\* with self._req_id_lock
ReqIdLockFree == client.req_id_lock = ""

\* IBKRWrapper.connectAck
ConnectAck ==
    /\ client.thread /\ client.socket
    /\ client' = [client EXCEPT !.connected = TRUE]
    /\ last' = [op |-> "connectAck", locked |-> FALSE]
    /\ UNCHANGED callers
    /\ ClientFrame

\* IBKRWrapper.nextValidId
NextValidId ==
    /\ client.thread /\ client.socket
    /\ client' = [client EXCEPT !.connection_ready = TRUE, !.connection_event = TRUE]
    /\ last' = [op |-> "nextValidId", locked |-> FALSE]
    /\ UNCHANGED callers
    /\ ClientFrame

\* IBKRWrapper.connectionClosed, the socket closed by the other side
ConnectionClosed ==
    /\ client.thread /\ client.socket
    /\ client' = [ConnectionDropped(client) EXCEPT !.socket = FALSE]
    /\ last' = [op |-> "connectionClosed", locked |-> FALSE, was |-> IsConnected(client)]
    /\ UNCHANGED callers
    /\ ClientFrame

\* IBKRWrapper.error
WrapperError(errorCode) ==
    /\ client.thread /\ client.socket
    /\ client' = IF errorCode \in ConnectionErrors THEN ConnectionDropped(client) ELSE client
    /\ last' = [op |-> "error", locked |-> FALSE, code |-> errorCode,
                was |-> IsConnected(client)]
    /\ UNCHANGED callers
    /\ ClientFrame

\* ensure_connection lines 420-427 and the check of reconnect, lines 402-404,
\* at the head of request_market_data or request_option_computation
EnsureConnection(t, symbol) ==
    /\ callers[t].pc = "idle"
    /\ Len(client.issued) < MaxRequests
    /\ IF IsConnected(client)
       THEN /\ callers' = [callers EXCEPT ![t] = [@ EXCEPT !.pc = "req_id", !.symbol = symbol]]
            /\ last' = [op |-> "ensure_connection", locked |-> FALSE, thread |-> t,
                        result |-> TRUE]
       ELSE IF client.reconnect_attempts >= MaxReconnectAttempts
       THEN /\ UNCHANGED callers
            /\ last' = [op |-> "ensure_connection", locked |-> FALSE, thread |-> t,
                        result |-> FALSE]
       ELSE /\ callers' = [callers EXCEPT ![t] = [@ EXCEPT !.pc = "load", !.symbol = symbol]]
            /\ last' = [op |-> "reconnect", locked |-> FALSE, thread |-> t]
    /\ UNCHANGED client
    /\ ClientFrame

\* reconnect line 406, self.reconnect_attempts += 1: the read
ReconnectLoad(t) ==
    /\ callers[t].pc = "load"
    /\ callers' = [callers EXCEPT ![t] = [@ EXCEPT !.pc = "store",
                                             !.attempts = client.reconnect_attempts]]
    /\ UNCHANGED <<client, last>>
    /\ ClientFrame

\* reconnect line 406: the write
ReconnectStore(t) ==
    /\ callers[t].pc = "store"
    /\ client' = [client EXCEPT !.reconnect_attempts = callers[t].attempts + 1]
    /\ callers' = [callers EXCEPT ![t] = [@ EXCEPT !.pc = "disconnect"]]
    /\ last' = [op |-> "increment", locked |-> FALSE, thread |-> t,
                before |-> client.reconnect_attempts]
    /\ ClientFrame

\* disconnect_and_stop: the socket closed (EClient.disconnect reports
\* connectionClosed) and the connection thread joined
DisconnectAndStop(t) ==
    /\ callers[t].pc = "disconnect"
    /\ client.connection_lock = ""
    /\ client' = IF client.socket
                 THEN [ConnectionDropped(client) EXCEPT !.socket = FALSE, !.thread = FALSE]
                 ELSE [client EXCEPT !.thread = FALSE]
    /\ callers' = [callers EXCEPT ![t] = [@ EXCEPT !.pc = "connect"]]
    /\ last' = [op |-> "disconnect_and_stop", locked |-> FALSE, thread |-> t]
    /\ ClientFrame

\* connect_and_run lines 336-364: the lock taken, the state cleared, connect()
\* and the connection thread started; a connect() that raises returns False
ConnectAndRun(t, connects) ==
    /\ callers[t].pc = "connect"
    /\ client.connection_lock = ""
    /\ IF connects
       THEN /\ client' = [ConnectionDropped(client) EXCEPT
                              !.socket = TRUE, !.thread = TRUE, !.connection_lock = t]
            /\ callers' = [callers EXCEPT ![t] = [@ EXCEPT !.pc = "wait"]]
       ELSE /\ client' = [ConnectionDropped(client) EXCEPT !.socket = FALSE]
            /\ callers' = [callers EXCEPT ![t] = IdleCaller]
    /\ last' = [op |-> "connect", locked |-> FALSE, thread |-> t, opened |-> connects]
    /\ ClientFrame

\* connect_and_run lines 367-377: connection_event.wait returns with the event
\* set, or at its timeout with the event clear
ConnectWait(t) ==
    /\ callers[t].pc = "wait"
    /\ LET ready == client.connection_event /\ client.connection_ready
       IN  /\ client' = [client EXCEPT
                  !.reconnect_attempts = IF ready THEN 0 ELSE @,
                  !.connection_lock = ""]
           /\ callers' = [callers EXCEPT ![t] =
                  IF ready THEN [@ EXCEPT !.pc = "req_id"] ELSE IdleCaller]
           /\ last' = [op |-> "connect_and_run", locked |-> FALSE, thread |-> t,
                       result |-> ready]
    /\ ClientFrame

\* get_next_req_id lines 329-330: the lock taken and next_req_id read
GetNextReqId(t) ==
    /\ callers[t].pc = "req_id"
    /\ ReqIdLockFree
    /\ client' = [client EXCEPT !.req_id_lock = t]
    /\ callers' = [callers EXCEPT ![t] = [@ EXCEPT !.pc = "increment",
                                             !.req_id = client.next_req_id]]
    /\ UNCHANGED last
    /\ ClientFrame

\* get_next_req_id lines 331-332: next_req_id += 1, the lock released and
\* req_id returned
IncrementReqId(t) ==
    /\ callers[t].pc = "increment"
    /\ client' = [client EXCEPT !.next_req_id = @ + 1, !.req_id_lock = "",
                                !.issued = Append(@, callers[t].req_id)]
    /\ callers' = [callers EXCEPT ![t] = [@ EXCEPT !.pc = "map"]]
    /\ UNCHANGED last
    /\ ClientFrame

\* request_market_data line 437, request_option_computation line 472:
\* self.wrapper.req_id_to_symbol[req_id] = symbol
MapReqId(t) ==
    /\ callers[t].pc = "map"
    /\ client' = [client EXCEPT !.req_id_to_symbol[callers[t].req_id] =
                                    @ \cup {callers[t].symbol}]
    /\ callers' = [callers EXCEPT ![t] = IdleCaller]
    /\ last' = [op |-> "request", locked |-> FALSE, thread |-> t,
                req_id |-> callers[t].req_id]
    /\ ClientFrame

----------------------------------------------------------------------------

(* MarketDataService (services/market_data_service.py).  The service thread  *)
(* runs _setup_initial_subscriptions and then _check_new_subscriptions; the   *)
(* public methods subscribe_to_symbol, force_refresh_symbol,                  *)
(* retry_failed_symbols and emergency_reset are called from another thread.   *)
(* No method takes a lock.  What the service reads from outside is an input   *)
(* of the step: ready (min_subscription_interval has passed and               *)
(* is_connected() is True), and the outcome of a request.                     *)

MdsFrame ==
    UNCHANGED <<market_data, greeks_data, portfolios, order, gen, account_data, svc,
                tracked_accounts, snap, last, lock_vars, simple_vars, client, callers,
                alert_vars>>

\* the symbols of the positions in data_manager.portfolios
HeldSymbols ==
    {s \in MdsSymbols : \E a \in AccountIds :
        /\ portfolios[a] # None
        /\ \E i \in 1 .. Len(Val(portfolios[a]).positions) :
               Val(portfolios[a]).positions[i].symbol = s}

\* MarketDataService._can_make_subscription
CanMakeSubscription(m, ready) ==
    ready /\ Cardinality(m.subscribed_symbols) < MaxSubscriptions

\* _request_market_data_safe lines 171-177: whether the request goes out
RequestIssued(m, symbol, outcome) ==
    /\ outcome # "disconnected"
    /\ ~(symbol \in m.failed_symbols /\ m.subscription_retry_count[symbol] >= MaxRetries)

\* _request_market_data_safe lines 179-197: the records after the call
RequestMarketDataSafe(m, symbol, outcome) ==
    IF RequestIssued(m, symbol, outcome) /\ outcome = "failed"
    THEN [m EXCEPT !.failed_symbols = @ \cup {symbol},
                   !.subscription_retry_count[symbol] = @ + 1,
                   !.requests[symbol] = @ + 1]
    ELSE m

\* the records cleared for one symbol (force_refresh_symbol lines 334-335)
ClearFailure(m, symbol) ==
    [m EXCEPT !.failed_symbols = @ \ {symbol},
              !.subscription_retry_count[symbol] = 0,
              !.requests[symbol] = 0]

\* the requests of a run are bounded: no step issues a request for a symbol
\* that has failed MaxRetries + 1 times since its last reset
WithinRun(symbol) == mds.requests[symbol] <= MaxRetries

\* _setup_initial_subscriptions: one turn of the loop over market_indices
SetupInitialSubscriptions(ready, outcome) ==
    /\ mds.setup # <<>>
    /\ mds.threads["service"].pc = "idle"
    /\ LET symbol == Head(mds.setup)
           after == RequestMarketDataSafe(mds, symbol, outcome)
       IN  /\ WithinRun(symbol)
           /\ mds' =
                IF ~mds.running \/ mds.subscription_count >= MaxSubscriptions
                THEN [mds EXCEPT !.setup = <<>>]
                ELSE IF ~CanMakeSubscription(mds, ready)
                THEN [mds EXCEPT !.setup = Tail(@)]
                ELSE IF RequestIssued(mds, symbol, outcome) /\ outcome = "ok"
                THEN [mds EXCEPT !.subscribed_symbols = @ \cup {symbol},
                                 !.subscription_count = @ + 1,
                                 !.setup = Tail(@)]
                ELSE [after EXCEPT !.failed_symbols = @ \cup {symbol},
                                   !.subscription_retry_count[symbol] = 1,
                                   !.setup = Tail(@)]
    /\ MdsFrame

\* _check_connection_health, when the connection is found lost
CheckConnectionHealth ==
    /\ mds.setup = <<>>
    /\ mds.running
    /\ mds.threads["service"].pc = "idle"
    /\ mds.subscribed_symbols # {}
    /\ mds' = [mds EXCEPT !.subscribed_symbols = {}]
    /\ MdsFrame

\* subscribe_to_symbol lines 232-235: whether the call goes on to the request
SubscribePasses(m, symbol, ready) ==
    /\ symbol \notin m.subscribed_symbols
    /\ symbol \notin m.failed_symbols
    /\ CanMakeSubscription(m, ready)

\* _check_new_subscriptions: a symbol of the positions is picked and
\* subscribe_to_symbol is entered
CheckNewSubscriptions(symbol, ready) ==
    /\ mds.setup = <<>>
    /\ mds.running
    /\ mds.threads["service"].pc = "idle"
    /\ CanMakeSubscription(mds, ready)
    /\ symbol \in HeldSymbols
    /\ SubscribePasses(mds, symbol, ready)
    /\ mds' = [mds EXCEPT !.threads["service"] = [IdleSubscriber EXCEPT !.pc = "request",
                                                                        !.symbol = symbol]]
    /\ MdsFrame

\* subscribe_to_symbol called from another thread, lines 232-235
SubscribeToSymbol(symbol, ready) ==
    /\ mds.threads["api"].pc = "idle"
    /\ SubscribePasses(mds, symbol, ready)
    /\ mds' = [mds EXCEPT !.threads["api"] = [IdleSubscriber EXCEPT !.pc = "request",
                                                                    !.symbol = symbol]]
    /\ MdsFrame

\* subscribe_to_symbol lines 237-252: _request_market_data_safe and, when it
\* returned a request id, the symbol added to subscribed_symbols
SubscribeRequest(t, outcome) ==
    /\ mds.threads[t].pc = "request"
    /\ LET th == mds.threads[t]
           symbol == th.symbol
           after == IF RequestIssued(mds, symbol, outcome) /\ outcome = "ok"
                    THEN [mds EXCEPT !.subscribed_symbols = @ \cup {symbol}]
                    ELSE RequestMarketDataSafe(mds, symbol, outcome)
       IN  /\ WithinRun(symbol)
           /\ mds' = [after EXCEPT !.threads[t] =
                         IF th.retry # {} THEN [th EXCEPT !.pc = "retry", !.symbol = ""]
                         ELSE IdleSubscriber]
    /\ MdsFrame

\* force_refresh_symbol: the failure record cleared, the symbol unsubscribed
\* (when the socket is up) and subscribe_to_symbol entered
ForceRefreshSymbol(symbol, socket, ready) ==
    /\ mds.threads["api"].pc = "idle"
    /\ LET cleared == ClearFailure(mds, symbol)
           after == IF socket THEN [cleared EXCEPT !.subscribed_symbols = @ \ {symbol}]
                    ELSE cleared
       IN  mds' = IF SubscribePasses(after, symbol, ready)
                  THEN [after EXCEPT !.threads["api"] =
                           [IdleSubscriber EXCEPT !.pc = "request", !.symbol = symbol]]
                  ELSE after
    /\ mds' # mds
    /\ MdsFrame

\* retry_failed_symbols lines 345-357: up to two failed symbols below the
\* retry limit are selected
RetryFailedSymbols(retry_symbols, ready) ==
    /\ mds.threads["api"].pc = "idle"
    /\ mds.failed_symbols # {}
    /\ CanMakeSubscription(mds, ready)
    /\ LET eligible == {s \in mds.failed_symbols :
                            mds.subscription_retry_count[s] < MaxRetries}
       IN  /\ retry_symbols \subseteq eligible
           /\ Cardinality(retry_symbols) = Min({2, Cardinality(eligible)})
    /\ retry_symbols # {}
    /\ mds' = [mds EXCEPT !.threads["api"] =
                 [IdleSubscriber EXCEPT !.pc = "retry", !.retry = retry_symbols,
                                        !.first = TRUE]]
    /\ MdsFrame

\* retry_failed_symbols lines 360-370: the next symbol is taken off
\* failed_symbols and subscribe_to_symbol is entered; after the first symbol
\* the loop ends when _can_make_subscription() is False
RetryNext(symbol, ready) ==
    /\ mds.threads["api"].pc = "retry"
    /\ LET th == mds.threads["api"]
           discarded == [mds EXCEPT !.failed_symbols = @ \ {symbol}]
           rest == th.retry \ {symbol}
       IN  /\ symbol \in th.retry
           /\ mds' =
                IF ~th.first /\ ~CanMakeSubscription(mds, ready)
                THEN [mds EXCEPT !.threads["api"] = IdleSubscriber]
                ELSE IF SubscribePasses(discarded, symbol, ready)
                THEN [discarded EXCEPT !.threads["api"] =
                         [pc |-> "request", symbol |-> symbol, retry |-> rest,
                          first |-> FALSE]]
                ELSE [discarded EXCEPT !.threads["api"] =
                         IF rest = {} THEN IdleSubscriber
                         ELSE [th EXCEPT !.retry = rest, !.first = FALSE]]
    /\ MdsFrame

\* emergency_reset
EmergencyReset ==
    /\ mds.threads["api"].pc = "idle"
    /\ mds' = [mds EXCEPT !.subscribed_symbols = {}, !.failed_symbols = {},
                          !.subscription_retry_count = [s \in MdsSymbols |-> 0],
                          !.requests = [s \in MdsSymbols |-> 0]]
    /\ mds' # mds
    /\ MdsFrame

----------------------------------------------------------------------------

(* Alerts: DataManager.add_alert (core/data_manager.py) and the loss checks   *)
(* of AlertsService (services/alerts_service.py) on its service thread.       *)

AlertsFrame ==
    UNCHANGED <<market_data, greeks_data, portfolios, order, gen, account_data, svc,
                tracked_accounts, snap, last, lock_vars, simple_vars, client, callers, mds>>

\* list[-n:] of Python: the last n elements, and the whole list when n is 0
\* or not below its length
LastOf(list, n) ==
    IF n = 0 \/ n >= Len(list) THEN list
    ELSE SubSeq(list, Len(list) - n + 1, Len(list))

\* add_alert that drops the new alert when the list is full
AddAlertKeepOldest(list, alert) ==
    IF Len(list) >= MaxAlerts THEN list ELSE Append(list, alert)

\* DataManager.add_alert lines 460-464
AddAlert(list, alert) ==
    LET appended == Append(list, alert)
    IN  IF Len(appended) > MaxAlerts THEN LastOf(appended, MaxAlerts) ELSE appended

\* an AlertsService that does not look at triggered_alerts
NeverTriggered(alert_key) == FALSE

\* alert_key in self.triggered_alerts
AlreadyTriggered(alert_key) == alert_key \in alerts_service.triggered_alerts

\* how many alerts were added for a key since triggered_alerts was emptied
Raised(alert_key) ==
    IF alert_key \in DOMAIN alerts_service.raised THEN alerts_service.raised[alert_key] ELSE 0

\* the alert added and its key recorded (lines 103-114, 133-143)
RaiseAlert(alert_type, alert_key) ==
    /\ alerts_added < MaxAlertsAdded
    /\ alerts' = AddAlert(alerts, [seq |-> alerts_added + 1, type |-> alert_type,
                                   key |-> alert_key])
    /\ alerts_added' = alerts_added + 1
    /\ alerts_service' = [alerts_service EXCEPT
           !.triggered_alerts = @ \cup {alert_key},
           !.raised = [k \in DOMAIN @ \cup {alert_key} |-> IF k = alert_key THEN Raised(k) + 1
                                                          ELSE @[k]]]

\* _check_position_loss_alerts: the loop body for one position; the loss is
\* (current_price - avg_cost) / avg_cost <= -0.20
CheckPositionLossAlerts(account_id, i) ==
    /\ alerts_service.running
    /\ portfolios[account_id] # None
    /\ i \in 1 .. Len(Val(portfolios[account_id]).positions)
    /\ LET position == Val(portfolios[account_id]).positions[i]
           alert_key == <<"position_loss", account_id, position.symbol,
                           position.strike_price, position.expiry>>
       IN  /\ position.avg_cost > 0
           /\ 5 * (position.current_price - position.avg_cost) <= -position.avg_cost
           /\ ~AlreadyTriggered(alert_key)
           /\ RaiseAlert("profit_loss", alert_key)
    /\ AlertsFrame

\* _check_portfolio_loss_alerts: the loop body for one portfolio; the loss is
\* day_pnl / total_value <= -0.10
CheckPortfolioLossAlerts(account_id) ==
    /\ alerts_service.running
    /\ portfolios[account_id] # None
    /\ LET portfolio == Val(portfolios[account_id])
           alert_key == <<"portfolio_loss", account_id>>
       IN  /\ portfolio.total_value > 0
           /\ 10 * portfolio.day_pnl <= -portfolio.total_value
           /\ ~AlreadyTriggered(alert_key)
           /\ RaiseAlert("risk", alert_key)
    /\ AlertsFrame

\* _cleanup_triggered_alerts
CleanupTriggeredAlerts ==
    /\ alerts_service.running
    /\ Cardinality(alerts_service.triggered_alerts) > TriggeredAlertsLimit
    /\ alerts_service' = [alerts_service EXCEPT !.triggered_alerts = {}, !.raised = <<>>]
    /\ UNCHANGED <<alerts, alerts_added>>
    /\ AlertsFrame

\* stop(): the service thread leaves its loop and runs _cleanup
StopAlertsService ==
    /\ alerts_service.running
    /\ alerts_service' = [triggered_alerts |-> {}, raised |-> <<>>, running |-> FALSE]
    /\ UNCHANGED <<alerts, alerts_added>>
    /\ AlertsFrame

\* start()
StartAlertsService ==
    /\ ~alerts_service.running
    /\ alerts_service' = [alerts_service EXCEPT !.running = TRUE]
    /\ UNCHANGED <<alerts, alerts_added>>
    /\ AlertsFrame

\* main._monitor_connection_health line 164: the connection-lost alert, added
\* without a key
ConnectionLostAlert ==
    /\ alerts_added < MaxAlertsAdded
    /\ alerts' = AddAlert(alerts, [seq |-> alerts_added + 1, type |-> "system",
                                   key |-> <<>>])
    /\ alerts_added' = alerts_added + 1
    /\ UNCHANGED alerts_service
    /\ AlertsFrame

----------------------------------------------------------------------------

(* Specifications *)

\* the ledger: position deltas, account values, price ticks and the price
\* pass, each handler run to its end before the next starts
Next ==
    \/ \E price_data \in PriceTicks : UpdateMarketData("AAPL", price_data)
    \/ \E account_id \in Accounts, position_data \in PositionDeltas :
           UpdatePosition(account_id, position_data)
    \/ \E account_id \in Accounts, key \in AccountKeys, value \in AccountValues :
           UpdateAccountValue(account_id, key, value)
    \/ UpdatePortfolioCalculations

Spec == Init /\ [][Next]_vars

\* the Greeks feed over held option positions
GreeksDeltas ==
    {Delta(StkAapl, Shares(100), Dollars(155), 0),
     Delta(OptCallFeed, Shares(100), Dollars(155), 0),
     Delta(OptPutFeed, Shares(100), Dollars(155), 0)}

NextGreeks ==
    \/ \E tick \in OptionTicks : TickOptionComputation("AAPL", tick)
    \/ \E account_id \in Accounts, position_data \in GreeksDeltas :
           UpdatePosition(account_id, position_data)
    \/ \E price_data \in PriceTicks : UpdateMarketData("AAPL", price_data)

SpecGreeks == Init /\ [][NextGreeks]_vars

\* the threads: the feed thread's handlers and the reader's snapshot, each
\* under the lock, and the statements of the service thread, which takes none
ThreadDeltas ==
    {Delta(StkAapl, Shares(100), Dollars(155), 0),
     Delta(OptCallFeed, Shares(100), Dollars(155), 0)}

NextThreads ==
    \/ UpdateMarketData("AAPL", [last_price |-> Dollars(160), close |-> 0])
    \/ \E account_id \in Accounts, position_data \in ThreadDeltas :
           UpdatePosition(account_id, position_data)
    \/ \E account_id \in Accounts, value \in AccountValues :
           UpdateAccountValue(account_id, "CashBalance", value)
    \/ GetDashboardData
    \/ ServiceStart
    \/ ServiceNextPortfolio
    \/ ServiceOrphan
    \/ ServiceTotals145
    \/ ServiceTotals146
    \/ ServiceTotals147
    \/ ServiceTotals148
    \/ ServiceTotals151
    \/ ServiceNextPosition
    \/ ServicePrice90
    \/ ServicePrice91
    \/ ServicePrice94
    \/ ServicePrice95
    \/ ServicePrice101
    \/ \E account_id \in Accounts : AddAccount(account_id)
    \/ \E account_id \in Accounts : RemoveAccount(account_id)

SpecThreads == Init /\ [][NextThreads]_vars

\* the contracts of the feed in their variety: other strikes and expiries,
\* and option contracts that lack a right or a strike (the Contract defaults
\* "" and 0.0) or carry an expiry that is no date
ExpiryJan == <<"2", "0", "2", "6", "0", "1", "1", "6">>
ExpiryBad == <<"D", "E", "C", "2", "5">>
OptCall155 == [symbol |-> "AAPL", secType |-> "OPT", right |-> "C", strike |-> 155, expiry |-> ExpiryFeed]
OptCallJan == [symbol |-> "AAPL", secType |-> "OPT", right |-> "C", strike |-> 150, expiry |-> ExpiryJan]
OptNoRight == [symbol |-> "AAPL", secType |-> "OPT", right |-> "", strike |-> 150, expiry |-> ExpiryFeed]
OptNoStrike == [symbol |-> "AAPL", secType |-> "OPT", right |-> "C", strike |-> 0, expiry |-> ExpiryFeed]
OptBadExpiry == [symbol |-> "AAPL", secType |-> "OPT", right |-> "C", strike |-> 150, expiry |-> ExpiryBad]

WellFormedContracts == {StkAapl, OptCallFeed, OptCallDisplay, OptPutFeed, OptCall155, OptCallJan, FutEs}
MalformedContracts == {OptNoRight, OptNoStrike, OptBadExpiry}

\* position deltas over these contracts: 100 units, and for the share also
\* the fractional quantities 0.5 and 1.5 and the closing quantity 0
ContractDeltas ==
    {Delta(c, Shares(100), Dollars(155), 0) : c \in WellFormedContracts \cup MalformedContracts}
    \cup {Delta(StkAapl, 1, Dollars(155), 0), Delta(StkAapl, 3, Dollars(155), 0),
          Delta(StkAapl, 0, 0, 0), Delta(OptCallFeed, 0, 0, 0)}

NextContracts ==
    \E account_id \in Accounts, position_data \in ContractDeltas :
        UpdatePosition(account_id, position_data)

SpecContracts == Init /\ [][NextContracts]_vars

----------------------------------------------------------------------------
\* the quote cache: price ticks for both symbols, with and without a previous
\* close (a market data request starts a fresh tick dict, so a tick without a
\* close can follow one with a close), the Greeks events that main.py also
\* routes to update_market_data, and the operations that only read the cache
QuoteTicks ==
    {[last_price |-> Dollars(160), close |-> Dollars(150)],
     [last_price |-> Dollars(155), close |-> 0],
     [last_price |-> Dollars(140), close |-> Dollars(150)]}

QuoteDeltas == {Delta(StkAapl, Shares(100), 0, 0)}

NextQuotes ==
    \/ \E symbol \in Symbols, price_data \in QuoteTicks :
           UpdateMarketData(symbol, price_data)
    \/ \E tick \in {t \in OptionTicks : t.delta = 73} : TickOptionComputation("AAPL", tick)
    \/ \E account_id \in Accounts, position_data \in QuoteDeltas :
           UpdatePosition(account_id, position_data)
    \/ UpdatePortfolioCalculations

SpecQuotes == Init /\ [][NextQuotes]_vars

----------------------------------------------------------------------------

\* the account feed: account values of ACC1 under recognized and other keys,
\* with a value float() parses and one it does not, and the position deltas
\* that open the portfolios of both accounts
AccountEventKeys == {"CashBalance", "BuyingPower", "NetLiquidation", "DayTradesRemaining"}
AccountEventValues == {[ok |-> TRUE, num |-> Dollars(1000)], [ok |-> FALSE, num |-> 0]}

AccountDeltas ==
    {Delta(StkAapl, Shares(100), Dollars(155), 0),
     Delta(FutEs, Shares(100), Dollars(155), 0),
     Delta(StkAapl, 0, 0, 0)}

NextAccounts ==
    \/ \E key \in AccountEventKeys, val \in AccountEventValues :
           updateAccountValue(key, val, "ACC1")
    \/ updateAccountValue("CashBalance", [ok |-> TRUE, num |-> Dollars(1000)], "IRA7")
    \/ \E account_id \in AccountIds, position_data \in AccountDeltas :
           UpdatePosition(account_id, position_data)

SpecAccounts == Init /\ [][NextAccounts]_vars

----------------------------------------------------------------------------

\* successive deltas for one instrument: the share at 100 @ 150, then 50 @ 152
\* without a price, then 1.5 shares; the call at 100 and at 200 contracts;
\* between them a Greeks event, a price tick and the price pass
ReplaceDeltas ==
    {Delta(StkAapl, Shares(100), Dollars(155), 0),
     [Delta(StkAapl, Shares(50), 0, 0) EXCEPT !.average_cost = Dollars(152),
                                               !.realized_pnl = Dollars(40)],
     Delta(StkAapl, 3, Dollars(155), 0),
     Delta(OptCallFeed, Shares(100), Dollars(155), 0),
     [Delta(OptCallFeed, Shares(200), Dollars(156), Dollars(31000)) EXCEPT
         !.unrealized_pnl = Dollars(1200)]}

NextReplace ==
    \/ \E account_id \in Accounts, position_data \in ReplaceDeltas :
           UpdatePosition(account_id, position_data)
    \/ \E tick \in {t \in OptionTicks : t.delta = 73 /\ t.tickType = 10} :
           TickOptionComputation("AAPL", tick)
    \/ UpdateMarketData("AAPL", [last_price |-> Dollars(160), close |-> 0])
    \/ UpdatePortfolioCalculations

SpecReplace == Init /\ [][NextReplace]_vars

----------------------------------------------------------------------------

\* the lock: the feed thread's handlers, one reader of the dashboard and one
\* of the statistics, each a thread of its own, and the account tracking of
\* PortfolioService, which takes no lock
FeedCalls ==
    {[op |-> "update_position", account |-> "ACC1",
      data |-> Delta(StkAapl, Shares(100), Dollars(155), 0)],
     [op |-> "update_position", account |-> "ACC1",
      data |-> Delta(FutEs, Shares(100), Dollars(155), 0)],
     [op |-> "update_account_value", account |-> "ACC1", key |-> "CashBalance",
      data |-> [ok |-> TRUE, num |-> Dollars(1000)]],
     [op |-> "update_account_value", account |-> "ACC1", key |-> "CashBalance",
      data |-> [ok |-> FALSE, num |-> 0]],
     [op |-> "update_market_data", symbol |-> "AAPL",
      data |-> [last_price |-> Dollars(160), close |-> 0]]}

NextLock ==
    \/ \E c \in FeedCalls : Call("feed", c)
    \/ Call("reader", [op |-> "get_dashboard_data"])
    \/ Call("monitor", [op |-> "get_statistics"])
    \/ \E t \in LockThreads : Acquire(t)
    \/ \E t \in LockThreads : HandlerStep(t)
    \/ \E t \in LockThreads : ReadStep(t)
    \/ \E t \in LockThreads : IterStart(t)
    \/ \E t \in LockThreads : IterNext(t)
    \/ \E t \in LockThreads : DashboardStatus(t)
    \/ \E t \in LockThreads : DashboardIndex(t)
    \/ \E t \in LockThreads : DashboardCopy(t)
    \/ \E t \in LockThreads : DashboardAlerts(t)
    \/ \E t \in LockThreads : DashboardExcept(t)
    \/ \E t \in LockThreads : Release(t)
    \/ AddAccount("ACC1")
    \/ gen["ACC1"] < MaxGenerations /\ RemoveAccount("ACC1")

SpecLock == Init /\ [][NextLock]_vars

----------------------------------------------------------------------------

\* quantum_trader_simple: the position callback and the market data callback
\* on the feed thread, and the price pass on the market service thread
SimpleDeltas ==
    {Delta(StkAapl, Shares(100), Dollars(155), Dollars(15500)),
     Delta(StkAapl, 0, Dollars(155), 0),
     Delta(FutEs, Shares(2), Dollars(155), Dollars(310))}

NextSimple ==
    \/ \E position_data \in SimpleDeltas : OnPositionUpdate(position_data, "ACC1")
    \/ OnPositionUpdateStore
    \/ OnPositionUpdateDelete
    \/ \E symbol \in Symbols, last_price \in {Dollars(160), Dollars(162)} :
           OnMarketDataUpdate(symbol, last_price)
    \/ UpdatePositionPrices
    \/ UpdatePositionPricesMerge
    \/ UpdatePositionPricesWrite
    \/ UpdatePositionPricesDelete
    \/ GetSnapshot

SpecSimple == Init /\ [][NextSimple]_vars

\* IBKRClient: the callbacks of the connection thread and the requests of
\* two service threads
NextClient ==
    \/ ConnectAck
    \/ NextValidId
    \/ ConnectionClosed
    \/ \E errorCode \in ErrorCodes : WrapperError(errorCode)
    \/ \E t \in ClientThreads, symbol \in Symbols : EnsureConnection(t, symbol)
    \/ \E t \in ClientThreads : ReconnectLoad(t)
    \/ \E t \in ClientThreads : ReconnectStore(t)
    \/ \E t \in ClientThreads : DisconnectAndStop(t)
    \/ \E t \in ClientThreads, connects \in BOOLEAN : ConnectAndRun(t, connects)
    \/ \E t \in ClientThreads : ConnectWait(t)
    \/ \E t \in ClientThreads : GetNextReqId(t)
    \/ \E t \in ClientThreads : IncrementReqId(t)
    \/ \E t \in ClientThreads : MapReqId(t)

SpecClient == Init /\ [][NextClient]_vars

\* MarketDataService: the service thread and the calls of its public methods
\* from another thread, with one position delta so that a held symbol exists
RequestOutcomes == {"disconnected", "failed", "ok"}

NextSubscriptions ==
    \/ UpdatePosition("ACC1", Delta(StkAapl, Shares(100), Dollars(155), 0))
    \/ \E ready \in BOOLEAN, outcome \in RequestOutcomes :
           SetupInitialSubscriptions(ready, outcome)
    \/ CheckConnectionHealth
    \/ \E symbol \in MdsSymbols, ready \in BOOLEAN : CheckNewSubscriptions(symbol, ready)
    \/ \E symbol \in MdsSymbols, ready \in BOOLEAN : SubscribeToSymbol(symbol, ready)
    \/ \E t \in MdsThreads, outcome \in RequestOutcomes : SubscribeRequest(t, outcome)
    \/ \E symbol \in MdsSymbols, socket \in BOOLEAN, ready \in BOOLEAN :
           ForceRefreshSymbol(symbol, socket, ready)
    \/ \E retry_symbols \in SUBSET MdsSymbols, ready \in BOOLEAN :
           RetryFailedSymbols(retry_symbols, ready)
    \/ \E symbol \in MdsSymbols, ready \in BOOLEAN : RetryNext(symbol, ready)
    \/ EmergencyReset

SpecSubscriptions == Init /\ [][NextSubscriptions]_vars

\* the alerts: a share bought at 150 and reported at 155 or at 100, a tick
\* at 120 and the price pass, the checks of AlertsService and the alert of
\* the connection monitor
AlertDeltas ==
    {Delta(StkAapl, Shares(100), Dollars(155), 0),
     Delta(StkAapl, Shares(100), Dollars(100), 0),
     Delta(OptCallFeed, Shares(1), Dollars(100), 0)}

NextAlerts ==
    \/ \E position_data \in AlertDeltas : UpdatePosition("ACC1", position_data)
    \/ UpdateMarketData("AAPL", [last_price |-> Dollars(120), close |-> 0])
    \/ UpdatePortfolioCalculations
    \/ \E i \in 1 .. MaxPositions : CheckPositionLossAlerts("ACC1", i)
    \/ CheckPortfolioLossAlerts("ACC1")
    \/ CleanupTriggeredAlerts
    \/ StopAlertsService
    \/ StartAlertsService
    \/ ConnectionLostAlert

SpecAlerts == Init /\ [][NextAlerts]_vars

----------------------------------------------------------------------------

(* Properties *)

HeldAccounts == {a \in Accounts : portfolios[a] # None}

\* the roll-ups of a portfolio agree with its positions
TotalsConsistent(pf) ==
    /\ pf.total_value = SumOver(pf.positions, "market_value") + pf.cash_balance
    /\ pf.day_pnl = SumOver(pf.positions, "day_pnl")
    /\ pf.total_pnl = SumOver(pf.positions, "total_pnl")

\* the valuation of a position under multiplier m
ValuedWith(position, m) ==
    /\ position.market_value = position.quantity * position.current_price * m
    /\ position.unrealized_pnl =
           (position.current_price - position.avg_cost) * position.quantity * m

\* the positions of a list that carry the instrument identity of a contract
HeldBy(positions, contract) ==
    LET d == ContractDetails(contract)
    IN  MatchingIndexes(positions,
            [symbol |-> contract.symbol, strike_price |-> d.strike_price,
             expiry |-> d.expiry, option_type |-> d.option_type])

Without(positions, i) ==
    SubSeq(positions, 1, i - 1) \o SubSeq(positions, i + 1, Len(positions))

\* C1: once every handler has returned (no pass of the service thread is in
\* progress), each portfolio's total_value is the sum of its positions'
\* market_value plus cash_balance, its day_pnl the sum of their day_pnl and
\* its total_pnl the sum of their unrealized_pnl + realized_pnl.
C1_TotalsNeverDrift ==
    svc.pc = "idle" =>
        \A a \in HeldAccounts : TotalsConsistent(Val(portfolios[a]))

\* a pass of the service thread has ended and left a total_value that is not
\* the sum over the positions
C1_Drifted ==
    /\ svc.pc = "idle"
    /\ last = ServiceStep
    /\ \E a \in HeldAccounts : ~TotalsConsistent(Val(portfolios[a]))

\* C2: a position delta of quantity 0 that carries the identity of a held
\* position P removes exactly P, keeps the other positions, and lowers
\* total_value by P's market_value.
C2_ZeroQuantityRemoves ==
    [][\A a \in Accounts :
          (/\ last'.op = "update_position"
           /\ last'.account = a
           /\ last'.data.position = 0
           /\ portfolios[a] # None
           /\ HeldBy(Val(portfolios[a]).positions, last'.data.contract) # {})
          => LET pf == Val(portfolios[a])
                 i == Min(HeldBy(pf.positions, last'.data.contract))
             IN  /\ portfolios'[a] # None
                 /\ Val(portfolios'[a]).positions = Without(pf.positions, i)
                 /\ Val(portfolios'[a]).total_value =
                        pf.total_value - pf.positions[i].market_value]_vars

\* a closing delta for a held position has been processed and the position is
\* still held
C2_StillHeld ==
    /\ last.op = "update_position"
    /\ last.data.position = 0
    /\ portfolios[last.account] # None
    /\ HeldBy(Val(portfolios[last.account]).positions, last.data.contract) # {}

\* C3: a position delta that has just been applied, applied again (same
\* account, contract and field values), leaves the ledger as it is: the same
\* positions with the same fields and the same totals, no duplicate and no
\* accumulation; by induction the same holds for any number of repetitions.
C3_DeltaIdempotent ==
    last.op = "update_position" =>
        /\ UpdatePositionResult(portfolios, last.account, last.data, market_data)
               = portfolios
        /\ UpdatePositionResult(
               UpdatePositionResult(portfolios, last.account, last.data, market_data),
               last.account, last.data, market_data) = portfolios

\* an opening delta has replaced the first of two held positions
C3_Reapplied ==
    /\ last.op = "update_position"
    /\ last.data.position # 0
    /\ portfolios[last.account] # None
    /\ Len(Val(portfolios[last.account]).positions) = 2
    /\ HeldBy(Val(portfolios[last.account]).positions, last.data.contract) = {1}
    /\ Val(portfolios[last.account]).positions[1].market_value =
           IF last.data.market_value # 0 THEN last.data.market_value
           ELSE Val(portfolios[last.account]).positions[1].quantity
                    * Val(portfolios[last.account]).positions[1].current_price
                    * Multiplier(Val(portfolios[last.account]).positions[1].position_type)

\* C4: a dashboard snapshot never shows a position whose market_value and
\* unrealized_pnl belong to another price than its current_price, nor totals
\* that disagree with the positions of the same snapshot.
C4_SnapshotNeverTorn ==
    last.op = "get_dashboard_data" =>
        \A a \in HeldAccounts :
            /\ TotalsConsistent(Val(portfolios[a]))
            /\ \A i \in 1..Len(Val(portfolios[a]).positions) :
                   ValuedWith(Val(portfolios[a]).positions[i],
                              Multiplier(Val(portfolios[a]).positions[i].position_type))

\* a snapshot taken between two writes of Position.update_price
C4_TornSnapshot ==
    /\ last.op = "get_dashboard_data"
    /\ svc.pc \in {"up94", "up95", "up101"}
    /\ ~svc.detached
    /\ ServicePortfolioLive
    /\ ~ValuedWith(ServicePosition, Multiplier(ServicePosition.position_type))

\* the Portfolio object a snapshot holds for an account is the one the engine holds
SnapshotShares(a) ==
    /\ IsSome(snap)
    /\ Val(snap)[a] # 0
    /\ portfolios[a] # None
    /\ Val(snap)[a] = gen[a]

\* C5: a snapshot is an independent copy: no step after get_dashboard_data
\* has returned changes the positions, position fields or totals seen
\* through the snapshot.
C5_SnapshotIndependent ==
    [][\A a \in Accounts :
          (SnapshotShares(a) /\ snap' = snap /\ gen' = gen /\ portfolios'[a] # None)
          => portfolios'[a] = portfolios[a]]_vars

\* a position delta has changed a Portfolio object that a snapshot holds
C5_SnapshotChanged ==
    /\ last.op = "update_position"
    /\ \E a \in Accounts :
          /\ SnapshotShares(a)
          /\ Len(Val(portfolios[a]).positions) = 2

\* C6: every change of a portfolio (position list, position fields, cash,
\* totals) and every removal of a portfolio is made with the DataManager lock
\* held, the periodic service passes and the account removal included.
C6_MutationsLocked ==
    [][portfolios' # portfolios => last'.locked]_vars

\* the service thread has written a position field with no lock held
C6_UnlockedWrite ==
    /\ last = ServiceStep
    /\ svc.pc = "up94"
    /\ ~svc.detached
    /\ ServicePortfolioLive
    /\ ServicePosition.current_price = svc.new_price
    /\ ~ValuedWith(ServicePosition, Multiplier(ServicePosition.position_type))

\* the call position on AAPL, strike 150, stored with expiry "12/19/2025"
DisplayCalls(positions) ==
    {i \in 1..Len(positions) :
        /\ positions[i].symbol = "AAPL"
        /\ positions[i].strike_price = Some(150)
        /\ positions[i].option_type = Some("C")
        /\ positions[i].expiry = Some(ExpiryDisplay)}

\* C7: an option position stored with the display-format expiry 12/19/2025
\* and a closing delta whose contract reports 20251219 with the same symbol,
\* strike and right resolve to the same identity, and the position is removed.
C7_FeedExpiryCloses ==
    [][\A a \in Accounts :
          (/\ last'.op = "update_position"
           /\ last'.account = a
           /\ last'.data = Delta(OptCallFeed, 0, 0, 0)
           /\ portfolios[a] # None
           /\ DisplayCalls(Val(portfolios[a]).positions) # {})
          => /\ HeldBy(Val(portfolios[a]).positions, OptCallFeed)
                    = DisplayCalls(Val(portfolios[a]).positions)
             /\ portfolios'[a] # None
             /\ DisplayCalls(Val(portfolios'[a]).positions) = {}]_vars

\* the feed-format closing delta has been processed and the call is still held
C7_CallStillHeld ==
    /\ last.op = "update_position"
    /\ last.data = Delta(OptCallFeed, 0, 0, 0)
    /\ portfolios[last.account] # None
    /\ DisplayCalls(Val(portfolios[last.account]).positions) # {}

\* the option positions on a symbol, as (account, index) pairs
OptionPositions(symbol) ==
    {<<a, i>> \in HeldAccounts \X (1..MaxPositions + 1) :
        /\ i <= Len(Val(portfolios[a]).positions)
        /\ Val(portfolios[a]).positions[i].symbol = symbol
        /\ Val(portfolios[a]).positions[i].position_type \in {"Call", "Put"}}

\* C8: after a Greeks event the cached delta is the fed delta when that is
\* not the sentinel -2 and lies in [-1, 1] and is 0 otherwise; a negative
\* gamma or vega and an implied volatility <= 0 are stored as 0; the held
\* option positions on the symbol carry the same stored Greeks.
C8_GreeksClamped ==
    (last.op = "tickOptionComputation" /\ last.data.tickType \in ModelOptionTicks) =>
        /\ IsSome(greeks_data[last.symbol])
        /\ LET fed == last.data
               stored == Val(greeks_data[last.symbol])
           IN  /\ stored.delta = IF fed.delta # -200 /\ fed.delta >= -100 /\ fed.delta <= 100
                                 THEN fed.delta ELSE 0
               /\ fed.gamma < 0 => stored.gamma = 0
               /\ fed.gamma >= 0 => stored.gamma = fed.gamma
               /\ fed.vega < 0 => stored.vega = 0
               /\ fed.vega >= 0 => stored.vega = fed.vega
               /\ fed.impliedVol <= 0 => stored.implied_volatility = 0
               /\ fed.impliedVol > 0 => stored.implied_volatility = fed.impliedVol
               /\ \A ai \in OptionPositions(last.symbol) :
                      Val(portfolios[ai[1]]).positions[ai[2]].greeks = Some(stored)

\* a delta of 1.5 with a negative gamma and vega and a zero volatility has been
\* fed while a call is held, and the call carries zeros
C8_OutOfRangeFed ==
    /\ last.op = "tickOptionComputation"
    /\ last.data.tickType \in ModelOptionTicks
    /\ last.data.delta = 150
    /\ last.data.gamma < 0
    /\ last.data.impliedVol = 0
    /\ \E ai \in OptionPositions(last.symbol) :
          /\ IsSome(Val(portfolios[ai[1]]).positions[ai[2]].greeks)
          /\ Val(Val(portfolios[ai[1]]).positions[ai[2]].greeks).delta = 0

\* C9: every equity position of a portfolio has market_value = quantity *
\* current_price and unrealized_pnl = (current_price - avg_cost) * quantity,
\* whatever market_value and unrealized_pnl the delta carried.
C9_EquityValuation ==
    \A a \in HeldAccounts :
        \A i \in 1..Len(Val(portfolios[a]).positions) :
            Val(portfolios[a]).positions[i].position_type = "Stock"
                => ValuedWith(Val(portfolios[a]).positions[i], 1)

\* 100 shares at cost 150 and price 155 delivered with market_value 15000:
\* the position stored carries 15000
C9_VerbatimValue ==
    /\ last.op = "update_position"
    /\ last.data = Delta(StkAapl, Shares(100), Dollars(155), Dollars(15000))
    /\ \E i \in 1..Len(Val(portfolios[last.account]).positions) :
          /\ Val(portfolios[last.account]).positions[i].position_type = "Stock"
          /\ Val(portfolios[last.account]).positions[i].current_price = Dollars(155)
          /\ Val(portfolios[last.account]).positions[i].market_value = Dollars(15000)

\* C10: an option position has market_value = quantity * current_price * 100
\* and unrealized_pnl = (current_price - avg_cost) * quantity * 100, and a
\* futures delta of non-zero quantity leaves a position valued with
\* multiplier 1, after a position delta and after a price application.
C10_MultiplierValuation ==
    /\ \A a \in HeldAccounts :
           \A i \in 1..Len(Val(portfolios[a]).positions) :
               Val(portfolios[a]).positions[i].position_type \in {"Call", "Put"}
                   => ValuedWith(Val(portfolios[a]).positions[i], 100)
    /\ (/\ last.op = "update_position"
        /\ last.data.contract.secType = "FUT"
        /\ last.data.position # 0)
       => /\ portfolios[last.account] # None
          /\ \E i \in 1..Len(Val(portfolios[last.account]).positions) :
                /\ Val(portfolios[last.account]).positions[i].symbol
                       = last.data.contract.symbol
                /\ ValuedWith(Val(portfolios[last.account]).positions[i], 1)

\* a futures delta of 100 contracts has been processed and no position on its
\* symbol is held
C10_FutureDropped ==
    /\ last.op = "update_position"
    /\ last.data.contract.secType = "FUT"
    /\ last.data.position # 0
    /\ \A a \in HeldAccounts :
          \A i \in 1..Len(Val(portfolios[a]).positions) :
              Val(portfolios[a]).positions[i].symbol # last.data.contract.symbol

\* C11: every position stored in a portfolio has quantity # 0: a delta of
\* quantity 0 is never stored, and the conversion of the reported float
\* quantity to the stored integer never yields 0.
C11_QuantityNonZero ==
    \A a \in HeldAccounts :
        \A i \in 1..Len(Val(portfolios[a]).positions) :
            Val(portfolios[a]).positions[i].quantity # 0

\* a delta of half a share has been processed and a position of quantity 0
\* with a market value is held
C11_FractionStoredAsZero ==
    /\ last.op = "update_position"
    /\ last.data.position = 1
    /\ \E i \in 1..Len(Val(portfolios[last.account]).positions) :
          /\ Val(portfolios[last.account]).positions[i].quantity = 0
          /\ Val(portfolios[last.account]).positions[i].market_value > 0

\* the instrument identity of a stored position and of a delta's contract
FullIdentity(position) ==
    <<position.symbol, position.position_type, position.strike_price,
      position.expiry, position.option_type>>

ContractIdentity(contract) ==
    LET d == ContractDetails(contract)
    IN  <<contract.symbol, d.position_type, d.strike_price, d.expiry, d.option_type>>

PositionsOf(pfs, a) == IF pfs[a] = None THEN <<>> ELSE Val(pfs[a]).positions

NoDuplicateIdentity(positions) ==
    \A i, j \in 1..Len(positions) :
        FullIdentity(positions[i]) = FullIdentity(positions[j]) => i = j

\* C12: no portfolio holds two positions of one instrument identity (symbol,
\* kind, strike, expiry, right); a position delta for an identity already
\* held replaces that position in place and adds no row, a delta for an
\* identity not held adds one row, and in both cases every position of
\* another identity stays as it was.
C12_IdentityUnique ==
    [][\A a \in Accounts :
          /\ NoDuplicateIdentity(PositionsOf(portfolios', a))
          /\ (last'.op = "update_position" /\ last'.account = a /\ last'.data.position # 0)
             => LET id == ContractIdentity(last'.data.contract)
                    old == PositionsOf(portfolios, a)
                    new == PositionsOf(portfolios', a)
                    held == {i \in 1..Len(old) : FullIdentity(old[i]) = id}
                IN  /\ Len(new) >= Len(old)
                    /\ \A j \in 1..Len(old) : j \notin held => new[j] = old[j]
                    /\ held # {} => /\ Len(new) = Len(old)
                                    /\ \A i \in held : FullIdentity(new[i]) = id
                    /\ (held = {} /\ ~ContractDetails(last'.data.contract).raises)
                       => /\ Len(new) = Len(old) + 1
                          /\ FullIdentity(new[Len(new)]) = id]_vars

\* a put has been delivered while the call of the same symbol, strike and
\* expiry is held, and both are held
C12_CallAndPutHeld ==
    /\ last.op = "update_position"
    /\ last.data = Delta(OptPutFeed, Shares(100), Dollars(155), 0)
    /\ Len(PositionsOf(portfolios, last.account)) = 2
    /\ PositionsOf(portfolios, last.account)[1].option_type = Some("C")
    /\ PositionsOf(portfolios, last.account)[2].option_type = Some("P")
    /\ PositionsOf(portfolios, last.account)[1].strike_price =
           PositionsOf(portfolios, last.account)[2].strike_price
    /\ PositionsOf(portfolios, last.account)[1].expiry =
           PositionsOf(portfolios, last.account)[2].expiry

\* C13: after every totals recompute total_pnl_percent is
\* total_pnl / (total_value - total_pnl) * 100 when the invested capital
\* total_value - total_pnl is > 0 (and total_value > 0), and 0 otherwise; it
\* is never a percentage of an earlier state.
C13_PnlPercentDefined ==
    \A a \in HeldAccounts :
        LET pf == Val(portfolios[a])
            invested_amount == pf.total_value - pf.total_pnl
        IN  pf.total_pnl_percent =
                IF pf.total_value > 0 /\ invested_amount > 0
                THEN Percent(pf.total_pnl, invested_amount)
                ELSE 0

\* the total value has fallen to 0 and the percentage of the earlier state is
\* still shown
C13_StalePercent ==
    \E a \in HeldAccounts :
        /\ last.op = "update_position"
        /\ Val(portfolios[a]).total_value <= 0
        /\ Val(portfolios[a]).total_pnl < 0
        /\ Val(portfolios[a]).total_pnl_percent > 0

\* the CashBalance the feed has delivered for an account, if any
DeliveredCash(a) ==
    IF account_data[a] = None THEN None ELSE Val(account_data[a])["CashBalance"]

\* C14: once a CashBalance update and a position delta of an account have
\* both been applied, in either order, the portfolio's cash_balance is the
\* delivered value and total_value includes it.
C14_OrderIndependent ==
    \A a \in HeldAccounts :
        (IsSome(DeliveredCash(a)) /\ Val(DeliveredCash(a)).ok)
        => /\ Val(portfolios[a]).cash_balance = Val(DeliveredCash(a)).num
           /\ Val(portfolios[a]).total_value =
                  SumOver(Val(portfolios[a]).positions, "market_value")
                      + Val(DeliveredCash(a)).num

\* the CashBalance came first, the first position delta after it, and the
\* portfolio shows no cash
C14_CashLost ==
    \E a \in HeldAccounts :
        /\ last.op = "update_position"
        /\ IsSome(DeliveredCash(a))
        /\ Val(DeliveredCash(a)).num = Dollars(1000)
        /\ Len(Val(portfolios[a]).positions) = 1
        /\ Val(portfolios[a]).cash_balance = 0

\* an expiry that is a date: YYYYMMDD or MM/DD/YYYY
IsDateString(expiry) ==
    \/ Len(expiry) = 8 /\ IsDigitString(expiry)
    \/ /\ Len(expiry) = 10
       /\ expiry[3] = "/" /\ expiry[6] = "/"
       /\ \A i \in {1, 2, 4, 5, 7, 8, 9, 10} : expiry[i] \in Digits

\* an option contract without a right, without a strike, or with an expiry
\* that is no date
MalformedOption(contract) ==
    /\ contract.secType = "OPT"
    /\ \/ Upper(contract.right) \notin {"C", "P"}
       \/ contract.strike = 0
       \/ ~IsDateString(contract.expiry)

\* C15: a position delta whose option contract lacks a strike or a right, or
\* carries an expiry that is no date, is rejected: no position is added,
\* replaced or removed.
C15_MalformedRejected ==
    [][(last'.op = "update_position" /\ MalformedOption(last'.data.contract))
       => portfolios' = portfolios]_vars

\* a delta whose option contract has no right has been processed and a
\* position of kind Stock with a strike is held
C15_MalformedStored ==
    /\ last.op = "update_position"
    /\ last.data.contract = OptNoRight
    /\ \E i \in 1..Len(PositionsOf(portfolios, last.account)) :
          /\ PositionsOf(portfolios, last.account)[i].position_type = "Stock"
          /\ PositionsOf(portfolios, last.account)[i].strike_price = Some(150)
          /\ PositionsOf(portfolios, last.account)[i].option_type = None

\* C16: after a well-formed futures delta of non-zero quantity the account's
\* portfolio holds a position of kind Future on the contract's symbol with
\* the contract's expiry; the delta is not dropped.
C16_FuturesFolded ==
    (/\ last.op = "update_position"
     /\ last.data.contract.secType = "FUT"
     /\ last.data.contract.expiry # <<>>
     /\ last.data.position # 0)
    => \E i \in 1..Len(PositionsOf(portfolios, last.account)) :
          /\ PositionsOf(portfolios, last.account)[i].symbol = last.data.contract.symbol
          /\ PositionsOf(portfolios, last.account)[i].position_type = "Future"
          /\ PositionsOf(portfolios, last.account)[i].expiry = Some(last.data.contract.expiry)

\* the first delta of an account was a futures delta and the account has no
\* portfolio
C16_FutureLeavesNoPortfolio ==
    /\ last.op = "update_position"
    /\ last.data = Delta(FutEs, Shares(100), Dollars(155), 0)
    /\ portfolios[last.account] = None
    /\ gen[last.account] = 0

\* C17: a closing delta (quantity 0) that names an account without a
\* portfolio, or an instrument the account does not hold, changes nothing:
\* the portfolios with their positions and totals, the quote cache and the
\* Greeks cache stay as they are and no portfolio is created.
C17_UnknownCloseNoOp ==
    [][(/\ last'.op = "update_position"
        /\ last'.data.position = 0
        /\ \/ portfolios[last'.account] = None
           \/ HeldBy(PositionsOf(portfolios, last'.account), last'.data.contract) = {})
       => UNCHANGED <<portfolios, order, gen, market_data, greeks_data>>]_vars

\* a closing delta for a put has been processed by an account that holds
\* positions and no put
C17_ClosedUnheld ==
    /\ last.op = "update_position"
    /\ last.data = Delta(OptPutFeed, 0, 0, 0)
    /\ Len(PositionsOf(portfolios, last.account)) = 2
    /\ HeldBy(PositionsOf(portfolios, last.account), OptPutFeed) = {}
    /\ TotalsConsistent(Val(portfolios[last.account]))

\* the identities of the positions of an account whose Greeks a step changes
GreeksChanged(a) ==
    {FullIdentity(PositionsOf(portfolios, a)[i]) :
        i \in {j \in 1..Len(PositionsOf(portfolios, a)) :
                  /\ j <= Len(PositionsOf(portfolios', a))
                  /\ PositionsOf(portfolios', a)[j].greeks
                         # PositionsOf(portfolios, a)[j].greeks}}

\* C18: a Greeks event is for one option identity (symbol, strike, expiry,
\* right) and is attached to held positions of that identity only: the
\* positions whose Greeks one event changes are of at most one identity, and
\* no equity position is among them.
C18_GreeksOnlyOnIdentity ==
    [][last'.op = "tickOptionComputation"
       => \A a \in Accounts :
             /\ Cardinality(GreeksChanged(a)) <= 1
             /\ \A id \in GreeksChanged(a) : id[2] # "Stock"]_vars

\* one Greeks event has been processed and the call and the put held on the
\* symbol both carry its values
C18_CallAndPutCarry ==
    /\ last.op = "tickOptionComputation"
    /\ last.data.delta = 73
    /\ \E a \in HeldAccounts :
          /\ Len(Val(portfolios[a]).positions) = 2
          /\ Val(portfolios[a]).positions[1].option_type = Some("C")
          /\ Val(portfolios[a]).positions[2].option_type = Some("P")
          /\ Val(portfolios[a]).positions[1].greeks = greeks_data[last.symbol]
          /\ Val(portfolios[a]).positions[2].greeks = greeks_data[last.symbol]
          /\ IsSome(greeks_data[last.symbol])

\* C19: a position's day_pnl accumulates over price applications: a refresh
\* pass that re-applies the price the position already carries leaves its
\* day_pnl as it was and does not reset it to 0.
C19_DayPnlAccumulates ==
    [][last' = ServiceStep
       => \A a \in HeldAccounts :
             \A i \in 1..Len(Val(portfolios[a]).positions) :
                 LET position == Val(portfolios[a]).positions[i]
                     quote == market_data[position.symbol]
                 IN  (/\ IsSome(quote)
                      /\ Val(quote).price > 0
                      /\ Val(quote).price = position.current_price)
                     => PositionsOf(portfolios', a)[i].day_pnl = position.day_pnl]_vars

\* a refresh pass has moved 100 shares from 155 to 160 and their day_pnl is
\* the +500 of that move; the quote is unchanged, so the next pass re-applies it
C19_MoveRecorded ==
    /\ last = ServiceStep
    /\ \E a \in HeldAccounts :
          \E i \in 1..Len(Val(portfolios[a]).positions) :
              /\ Val(portfolios[a]).positions[i].position_type = "Stock"
              /\ Val(portfolios[a]).positions[i].current_price = Dollars(160)
              /\ Val(portfolios[a]).positions[i].market_value = Dollars(16000)
              /\ Val(portfolios[a]).positions[i].day_pnl = Dollars(500)
              /\ market_data["AAPL"] # None
              /\ Val(market_data["AAPL"]).price = Dollars(160)

\* C20: a snapshot read after a price tick shows, for every held position
\* on the symbol, a current_price equal to the cached quote's price, with
\* market_value and unrealized_pnl computed from it and totals that agree,
\* whether or not the refresh pass has run since the tick.
C20_SnapshotLatestQuote ==
    last.op = "get_dashboard_data" =>
        \A a \in HeldAccounts :
            /\ \A i \in 1..Len(Val(portfolios[a]).positions) :
                   LET position == Val(portfolios[a]).positions[i]
                   IN  IsSome(market_data[position.symbol])
                       => /\ position.current_price = Val(market_data[position.symbol]).price
                          /\ ValuedWith(position, Multiplier(position.position_type))
            /\ TotalsConsistent(Val(portfolios[a]))

\* a snapshot has been taken with the service thread between two passes, the
\* quote at 160 and the held shares still priced at 155
C20_StaleSnapshot ==
    /\ last.op = "get_dashboard_data"
    /\ svc.pc = "idle"
    /\ IsSome(market_data["AAPL"])
    /\ Val(market_data["AAPL"]).price = Dollars(160)
    /\ \E a \in HeldAccounts :
          /\ SnapshotShares(a)
          /\ \E i \in 1..Len(Val(portfolios[a]).positions) :
                /\ Val(portfolios[a]).positions[i].position_type = "Stock"
                /\ Val(portfolios[a]).positions[i].current_price = Dollars(155)
                /\ Val(portfolios[a]).positions[i].market_value = Dollars(15500)

----------------------------------------------------------------------------

C24_ChangeFromStoredClose ==
    \A s \in Symbols :
        market_data[s] # None =>
            LET q == Val(market_data[s])
            IN  /\ q.close > 0 => /\ q.change = q.price - q.close
                                  /\ q.change_percent = Percent(q.change, q.close)
                /\ q.close <= 0 => q.change_percent = 0

\* a tick without a close was applied after one with a close: the stored quote
\* has no previous close and a change measured from the close it replaced
C24_ChangeFromReplacedClose ==
    /\ last.op = "update_market_data"
    /\ last.symbol = "AAPL"
    /\ last.data.close = 0
    /\ Val(market_data["AAPL"]).close = 0
    /\ Val(market_data["AAPL"]).change = Dollars(5)
    /\ Val(market_data["AAPL"]).change_percent # 0

\* C21: event handling is all-or-nothing: an event whose handler met an
\* exception leaves account_data, the portfolios and the quote and Greeks
\* caches as they were before the event
C21_AllOrNothing ==
    [][(last'.op \in {"update_account_value", "update_position"} /\ last'.faulted)
          => UNCHANGED <<account_data, portfolios, market_data, greeks_data>>]_vars

\* a CashBalance that float() rejects is in account_data while the portfolio
\* keeps the cash of the event before
C21_UnparsedCashRecorded ==
    /\ last.op = "update_account_value"
    /\ last.faulted
    /\ Val(account_data["ACC1"])["CashBalance"] = Some([ok |-> FALSE, num |-> 0])
    /\ Val(portfolios["ACC1"]).cash_balance = Dollars(1000)

\* C25: an account-value update under a key that is not a recognized cash key
\* is recorded in account_data and leaves every portfolio as it was; an update
\* under a recognized key is recorded, and changes in the account's portfolio
\* only its own field and the recomputed totals
C25_UnrecognizedKeyRecorded ==
    [][\A a \in AccountIds :
          (last'.op \in {"updateAccountValue", "update_account_value"} /\ last'.account = a)
          => /\ account_data'[a] # None
             /\ Val(account_data'[a])[last'.key] = Some(last'.data)
             /\ \A b \in AccountIds \ {a} : portfolios'[b] = portfolios[b]
             /\ IF last'.key \notin {"CashBalance", "BuyingPower"}
                THEN portfolios'[a] = portfolios[a]
                ELSE /\ (portfolios[a] = None) = (portfolios'[a] = None)
                     /\ portfolios[a] # None =>
                            LET old == Val(portfolios[a])
                                new == Val(portfolios'[a])
                            IN  /\ new.positions = old.positions
                                /\ new.margin_used = old.margin_used
                                /\ new.account_type = old.account_type
                                /\ last'.key = "CashBalance" =>
                                       new.buying_power = old.buying_power
                                /\ last'.key = "BuyingPower" =>
                                       new.cash_balance = old.cash_balance]_vars

\* the feed sent DayTradesRemaining for ACC1 and account_data has no entry
\* under that key
C25_KeyDropped ==
    /\ last.op = "updateAccountValue"
    /\ last.key = "DayTradesRemaining"
    /\ last.account = "ACC1"
    /\ portfolios["ACC1"] # None
    /\ account_data["ACC1"] # None
    /\ Val(account_data["ACC1"])["DayTradesRemaining"] = None

\* the account ids whose name holds 'retirement' or 'ira' in any case
RetirementNamed == {"IRA7"}

\* C26: the first position delta that names an account without a portfolio
\* creates its portfolio, classified as retirement exactly when the id holds
\* 'retirement' or 'ira', and a portfolio once created stays present
C26_AccountLifecycle ==
    [][\A a \in AccountIds :
          /\ (last'.op = "update_position" /\ last'.account = a /\ portfolios[a] = None)
             => /\ portfolios'[a] # None
                /\ Val(portfolios'[a]).account_type =
                       IF a \in RetirementNamed THEN "retirement_tax_free"
                       ELSE "individual_taxable"
          /\ portfolios[a] # None => portfolios'[a] # None]_vars

\* both accounts have their portfolio, IRA7 as a retirement account, and
\* ACC1's is still there after the closing delta of its only position
C26_BothClassified ==
    /\ portfolios["IRA7"] # None
    /\ Val(portfolios["IRA7"]).account_type = "retirement_tax_free"
    /\ portfolios["ACC1"] # None
    /\ Val(portfolios["ACC1"]).account_type = "individual_taxable"
    /\ last.op = "update_position"
    /\ last.account = "ACC1"
    /\ last.data.position = 0

\* the stored positions that a delta for an identity already held has just
\* replaced
JustReplaced(a) ==
    IF /\ last'.op = "update_position"
       /\ last'.account = a
       /\ last'.data.position # 0
       /\ ~last'.faulted
       /\ portfolios[a] # None
       /\ HeldBy(Val(portfolios[a]).positions, last'.data.contract) # {}
    THEN HeldBy(Val(portfolios'[a]).positions, last'.data.contract)
    ELSE {}

\* C27: last applied wins: when a delta B is processed for an identity that an
\* earlier delta A left in the portfolio, the portfolio afterwards holds one
\* position of that identity, with B's quantity, average cost, price, market
\* value and P&L (the price and the values B does not carry being computed
\* from B's own figures) and as many positions as before
C27_LastAppliedWins ==
    [][\A a \in AccountIds :
          /\ JustReplaced(a) # {} =>
                 /\ Cardinality(JustReplaced(a)) = 1
                 /\ Len(Val(portfolios'[a]).positions) = Len(Val(portfolios[a]).positions)
          /\ \A i \in JustReplaced(a) :
                LET B == last'.data
                    p == Val(portfolios'[a]).positions[i]
                    m == Multiplier(p.position_type)
                IN  /\ Shares(p.quantity) = B.position
                    /\ p.avg_cost = B.average_cost
                    /\ p.realized_pnl = B.realized_pnl
                    /\ B.market_price # 0 => p.current_price = B.market_price
                    /\ p.market_value =
                           IF B.market_value # 0 THEN B.market_value
                           ELSE TimesQuantity(B.position, p.current_price) * m
                    /\ p.unrealized_pnl =
                           IF B.unrealized_pnl # 0 THEN B.unrealized_pnl
                           ELSE TimesQuantity(B.position, p.current_price - p.avg_cost) * m]_vars

\* a delta of 1.5 shares has replaced the held share position, which now has
\* quantity 1
C27_FractionTruncated ==
    /\ last.op = "update_position"
    /\ last.data.position = 3
    /\ last.replaced # None
    /\ \E i \in 1..Len(Val(portfolios[last.account]).positions) :
          /\ Val(portfolios[last.account]).positions[i].symbol = "AAPL"
          /\ Val(portfolios[last.account]).positions[i].position_type = "Stock"
          /\ Val(portfolios[last.account]).positions[i].quantity = 1

\* C28: a delta for an identity already held replaces the whole stored
\* position: right after it the position's greeks are None and its day_pnl is
\* 0, whatever Greeks and day P&L the replaced position carried
C28_ReplaceResets ==
    [][\A a \in AccountIds :
          \A i \in JustReplaced(a) :
              /\ Val(portfolios'[a]).positions[i].greeks = None
              /\ Val(portfolios'[a]).positions[i].day_pnl = 0]_vars

\* the call position that carried Greeks and a day P&L has just been replaced
\* by the delta of 200 contracts, and carries neither
C28_GreeksAndDayPnlGone ==
    /\ last.op = "update_position"
    /\ last.data.position = Shares(200)
    /\ last.replaced # None
    /\ Val(last.replaced).greeks # None
    /\ Val(last.replaced).day_pnl # 0
    /\ \E i \in 1..Len(Val(portfolios[last.account]).positions) :
          /\ Val(portfolios[last.account]).positions[i].position_type = "Call"
          /\ Val(portfolios[last.account]).positions[i].quantity = 200
          /\ Val(portfolios[last.account]).positions[i].greeks = None
          /\ Val(portfolios[last.account]).positions[i].day_pnl = 0

\* a thread that is inside a DataManager call
Busy(t) == threads[t].stack # <<>>

\* the next statement of a thread inside a DataManager call
ThreadStep(t) ==
    \/ Acquire(t)
    \/ HandlerStep(t)
    \/ ReadStep(t)
    \/ IterStart(t)
    \/ IterNext(t)
    \/ DashboardStatus(t)
    \/ DashboardIndex(t)
    \/ DashboardCopy(t)
    \/ DashboardAlerts(t)
    \/ DashboardExcept(t)
    \/ Release(t)

\* whether the thread has a statement it can execute: at a with-statement
\* it needs the lock to be free or its own, elsewhere it is inside the
\* with-block and runs
CanStep(t) ==
    /\ Busy(t)
    /\ IF Top(t).pc = "acquire" THEN CanAcquire(t) ELSE lock.owner = t

\* the with-blocks a thread is inside
HeldFrames(t) ==
    Cardinality({i \in 1..Len(threads[t].stack) : threads[t].stack[i].pc # "acquire"})

\* C22: no feed handler and no snapshot read hands an exception to its
\* caller: no exception is in flight in the outermost frame of
\* update_market_data, update_position, update_account_value or
\* get_dashboard_data, the feed thread and the dashboard reader never end a
\* call with an exception, and a thread that has left its call, faulted or
\* not, does not own the lock
C22_FaultsContained ==
    \A t \in LockThreads :
        /\ (Busy(t) /\ Len(threads[t].stack) = 1
                /\ Top(t).call.op \in {"update_market_data", "update_greeks_data",
                                       "update_position", "update_account_value",
                                       "get_dashboard_data"})
           => ~threads[t].exc
        /\ t \in {"feed", "reader"} => threads[t].outcome # "propagated"
        /\ ~Busy(t) => lock.owner # t

\* after the event with the unparseable CashBalance, which is still in
\* account_data, the feed thread has had a position delta served and the
\* reader a snapshot, and the lock is free
C22_ServedAfterFault ==
    /\ account_data["ACC1"] # None
    /\ Val(account_data["ACC1"])["CashBalance"] = Some([ok |-> FALSE, num |-> 0])
    /\ portfolios["ACC1"] # None
    /\ last.op = "update_position"
    /\ ~Busy("feed")
    /\ threads["feed"].outcome = "returned"
    /\ ~Busy("reader")
    /\ threads["reader"].outcome = "caught"
    /\ lock = FreeLock

IdsOf(d) == {id \in PositionIds : d[id] # None}

\* C30: a position that _on_position_update wrote to the DataStore is not
\* removed from it by a concurrent price pass: whenever neither thread is in
\* the middle of its operation, the ids of the store are the ids of
\* PositionService.position_cache
C30_StoreKeepsCachedPositions ==
    (market_service.pc = "idle" /\ position_service.pc = "idle")
        => IdsOf(store_positions) = IdsOf(position_cache)

\* both threads have finished, the cache holds the ES position and the share,
\* and the store holds only the repriced share
C30_PositionLost ==
    /\ market_service.pc = "idle"
    /\ position_service.pc = "idle"
    /\ IdsOf(position_cache) = PositionIds
    /\ IdsOf(store_positions) = {"ACC1_AAPL_STK"}
    /\ Val(store_positions["ACC1_AAPL_STK"]).current_price = Dollars(160)

\* C31: in quantum_trader_simple, whenever no update_positions call is under
\* way the stored ids are exactly the ids of the list of the last call (an
\* id absent from that list has been deleted), and a get_snapshot returns
\* such a fully replaced set: it never shows ids of the list before it next
\* to the merged ones.
C31_KeySetReplaced ==
    /\ store_lock.owner = "" => IdsOf(store_positions) = store_lock.ids
    /\ store_snapshot # None => Val(store_snapshot).ids = Val(store_snapshot).list

\* a snapshot taken after a call whose list left out a stored position: the
\* position is gone from the snapshot
C31_SnapshotAfterDeletion ==
    /\ store_snapshot # None
    /\ Val(store_snapshot).ids = {"ACC1_AAPL_STK"}
    /\ Val(store_snapshot).list = {"ACC1_AAPL_STK"}
    /\ Val(store_snapshot).before = PositionIds

\* C32: in quantum_trader_simple, a position update with quantity 0 leaves
\* PositionService.position_cache and the DataStore as they are.
C32_ZeroQuantityIgnored ==
    [][(position_service'.update # position_service.update
            /\ position_service'.update[2] = 0)
        => /\ position_cache' = position_cache
           /\ store_positions' = store_positions
           /\ position_service'.pc = "idle"]_vars

\* the closing update of a stored position was handled, and the position is
\* still in the cache and in the store
C32_ClosedPositionKept ==
    /\ position_service.update = <<"ACC1_AAPL_STK", 0>>
    /\ position_cache["ACC1_AAPL_STK"] # None
    /\ store_positions["ACC1_AAPL_STK"] # None
    /\ Val(store_positions["ACC1_AAPL_STK"]).quantity = 100

\* C33: IBKRClient.reconnect_attempts never exceeds max_reconnect_attempts.
C33_AttemptsBounded ==
    client.reconnect_attempts <= MaxReconnectAttempts

\* two service threads passed the check of reconnect together and both
\* incremented the counter
C33_AttemptsPastMaximum ==
    /\ client.reconnect_attempts = MaxReconnectAttempts + 1
    /\ \A t \in ClientThreads : callers[t].pc = "disconnect"

C39_ReqIdsUnique ==
    /\ client.issued # <<>> => client.issued[1] = 1000
    /\ \A i, j \in 1 .. Len(client.issued) :
           i < j => client.issued[i] < client.issued[j]
    /\ \A id \in ReqIds : Cardinality(client.req_id_to_symbol[id]) <= 1

\* the two service threads were inside get_next_req_id together, one holding
\* the lock and one waiting for it, and their requests got different ids
C39_TwoCallersServed ==
    /\ client.req_id_to_symbol[1000] = {"AAPL"}
    /\ client.req_id_to_symbol[1001] = {"ES"}
    /\ \E t \in ClientThreads : callers[t].pc = "req_id" /\ client.req_id_lock \notin {"", t}

\* C35: MarketDataService.subscribed_symbols never holds more than
\* max_subscriptions_per_session symbols.
C35_SubscriptionsBounded ==
    Cardinality(mds.subscribed_symbols) <= MaxSubscriptions

\* the service thread and a caller of subscribe_to_symbol both passed
\* _can_make_subscription with one place left, and both added their symbol
C35_OneTooMany ==
    /\ mds.subscribed_symbols = MdsSymbols
    /\ \A t \in MdsThreads : mds.threads[t].pc = "idle"

\* C36: a symbol whose requests keep failing is requested at most 3 times
\* until its failure record is cleared.
C36_AtMostThreeRequests ==
    \A s \in MdsSymbols : mds.requests[s] <= MaxRetries

\* a fourth failed request for SPY with its failure record never cleared
C36_FourthRequest ==
    /\ mds.requests["SPY"] = MaxRetries + 1
    /\ "SPY" \in mds.failed_symbols

C38_OneAlertPerKey ==
    /\ [](/\ DOMAIN alerts_service.raised = alerts_service.triggered_alerts
          /\ \A alert_key \in alerts_service.triggered_alerts : Raised(alert_key) = 1)
    /\ [][~(alerts_service.triggered_alerts \subseteq alerts_service'.triggered_alerts)
              => \/ Cardinality(alerts_service.triggered_alerts) > TriggeredAlertsLimit
                 \/ ~alerts_service'.running]_vars

\* the loss of a position was raised, the key set was emptied, and the next
\* check raised it again: two alerts with the key of the one condition
C38_RaisedAgainAfterClear ==
    /\ Len(alerts) = 2
    /\ alerts[1].key = alerts[2].key
    /\ alerts[1].type = "profit_loss"
    /\ alerts[1].key \in alerts_service.triggered_alerts
    /\ alerts_service.running

====
